---------------------------- MODULE Spec2Model ----------------------------
(***************************************************************************)
(* Verification model of murfel/hse-ds-2020.                               *)
(*                                                                         *)
(* Part 1: homework/kv-replication/solution/node.py, the replicated,       *)
(* partitioned key-value node (ring membership, partitioner, vector        *)
(* clocks, quorum coordinator).                                            *)
(*                                                                         *)
(* Conventions.                                                            *)
(*  - A node address is an integer of Nodes; the order of the integers     *)
(*    stands for the lexicographic order of the address strings, which     *)
(*    the code uses when it sorts points and compares "simplified"         *)
(*    clocks.  Address 0 stands for the empty string ''.                   *)
(*  - A Python dict whose iteration order the code depends on              *)
(*    (addr_to_name, vector_clock) is a sequence of <<key, value>> pairs   *)
(*    in insertion order.  The other dicts are functions on their key set. *)
(*  - None / a missing optional field is the empty sequence <<>>, a        *)
(*    present value v is <<v>>.                                            *)
(*  - A message is copied when it is sent (it travels serialized), so a    *)
(*    message holds the values of the sender's fields at the send.         *)
(***************************************************************************)
EXTENDS Integers, Sequences, FiniteSets, Bags, TLC

VARIABLES
    node,       \* node[n]: the fields of the Node object at address n
    net,        \* bag of node-to-node messages in flight (ctx.send)
    client,     \* client[n]: local messages delivered to n's client (ctx.send_local)
    raised,     \* raised[n]: exceptions that escaped n's receive()
    running,    \* running[n]: FALSE once the runtime stopped n after an exception
    hist,       \* history of the client commands issued (read by the properties only)
    calc,       \* arguments and results of the vector clock functions called on their own
    shard,      \* the nodes, network and clients of the kv-sharding program (Part 2)
    rpc,        \* the RPC server, its store and its network (Part 3)
    memb,       \* the nodes, network and timers of the membership program (Part 4)
    bcast       \* the peers and network of the broadcast program (Part 5)

vars == <<node, net, client, raised, running, hist, calc, shard, rpc, memb, bcast>>

\* the variables of Part 1, and those of the other parts
replication == <<node, net, client, raised, running, hist, calc>>
elsewhere == <<shard, rpc, memb, bcast>>

---------------------------------------------------------------------------
(* Bounds of the model.                                                    *)

Nodes == {1, 2, 3, 4}

MaxJoins == 3       \* JOIN commands handled in a run of SpecJoin
MaxQueries == 1     \* LOOKUP / GET_MEMBERS commands handled in a run
MaxPos == 4         \* random.random() draws one of 1..MaxPos
MaxMembers == 3     \* nodes that join before the GET and PUT commands
MaxGets == 2        \* GET commands handled in a run
MaxPuts == 2        \* PUT commands handled in a run
MaxRequests == 3    \* GET and PUT commands handled in a run of Spec
MaxConcurrent == 2  \* GET and PUT commands handled in a run of SpecConcurrent
MaxClocks == 3      \* clocks in a list passed to get_max_vector_clock
MaxCounter == 1     \* counters of the clocks passed to the clock functions
MaxEarlyPuts == 1   \* PUT commands handled in a run of SpecJoining
MaxEarly == 1       \* GET, PUT and LOOKUP commands handled in a run of SpecEmptyRing
MaxPoints == 1      \* points a sharding node draws at JOIN (DEFAULT_NUM_POINTS in the code)
MaxShardCmds == 2   \* GET, PUT and DELETE commands handled in a run of SpecSharding
MaxRpcIds == 2      \* request identifiers the RPC client uses
MaxRpcSends == 3    \* messages sent to the RPC server in a run (retries included)
MaxMembCmds == 4    \* JOIN and LEAVE commands handled in a run of SpecMembership
MaxGossips == 2     \* gossip timers that fire in a run of SpecMembership
MaxTime == 1        \* time.time() returns one of 0..MaxTime
MaxSends == 2       \* SEND commands handled in a run of SpecBroadcast

Positions == 1 .. MaxPos

Keys == {"x", "y"}

\* the keys of the GET and PUT commands, and the nodes whose client sends them
StoreKeys == {"x"}
Clients == {1}

\* the address set of the clocks passed to the clock functions on their own
ClockAddrs == {1, 2}

NodeName == <<"A", "B", "C", "D">>

NUM_REPLICAS == 3

---------------------------------------------------------------------------
(* Python values.                                                          *)

Min(a, b) == IF a <= b THEN a ELSE b
Max(a, b) == IF a >= b THEN a ELSE b

Take(seq, k) == SubSeq(seq, 1, Min(k, Len(seq)))

Range(seq) == {seq[i] : i \in DOMAIN seq}

\* dict, in insertion order
DictKeys(d) == {d[i][1] : i \in DOMAIN d}
DictHas(d, k) == k \in DictKeys(d)
DictGet(d, k) == d[CHOOSE i \in DOMAIN d : d[i][1] = k][2]
DictSet(d, k, v) ==
    IF DictHas(d, k)
    THEN [i \in DOMAIN d |-> IF d[i][1] = k THEN <<k, v>> ELSE d[i]]
    ELSE Append(d, <<k, v>>)
DictValues(d) == [i \in DOMAIN d |-> d[i][2]]
DictKeyList(d) == [i \in DOMAIN d |-> d[i][1]]
\* dict == dict ignores the insertion order
DictEq(a, b) == Range(a) = Range(b)

\* dict whose order is never read: a function on its keys
MapSet(f, k, v) == [x \in DOMAIN f \cup {k} |-> IF x = k THEN v ELSE f[x]]
MapPop(f, k) == [x \in DOMAIN f \ {k} |-> f[x]]

---------------------------------------------------------------------------
(* Ring membership and partitioner.                                        *)

\* tuple order of (value, owner addr)
PointLE(a, b) == a[1] < b[1] \/ (a[1] = b[1] /\ a[2] <= b[2])

RECURSIVE SortedInsert(_, _)
SortedInsert(seq, p) ==
    IF seq = <<>> THEN <<p>>
    ELSE IF PointLE(seq[Len(seq)], p) THEN Append(seq, p)
    ELSE Append(SortedInsert(SubSeq(seq, 1, Len(seq) - 1), p), seq[Len(seq)])

\* list.sort() of a list of points
RECURSIVE SortPoints(_)
SortPoints(seq) ==
    IF seq = <<>> THEN <<>>
    ELSE SortedInsert(SortPoints(SubSeq(seq, 1, Len(seq) - 1)), seq[Len(seq)])

gen_and_add_points(points, my_addr, rnd) == SortPoints(Append(points, <<rnd, my_addr>>))

RECURSIVE SetSorted(_)
SetSorted(S) ==
    IF S = {} THEN <<>>
    ELSE LET m == CHOOSE x \in S : \A y \in S : PointLE(x, y)
         IN  <<m>> \o SetSorted(S \ {m})

\* a merge that extends and sorts the list without list(set(...))
merge_points_extended(points, other_points) == SortPoints(points \o other_points)

merge_points(points, other_points) == SetSorted(Range(points) \cup Range(other_points))

\* sha256-based position of a key on the ring; the keys of the model and
\* where they fall among the positions a point can take
bytes_to_float(key) == CASE key = "x" -> 0 [] key = "y" -> 2 [] OTHER -> 1

bisect_right(values, x) == Cardinality({i \in DOMAIN values : values[i] <= x})

get_replicas_addrs(key, points) ==
    LET n == Len(points)
        i == bisect_right([j \in DOMAIN points |-> points[j][1]], bytes_to_float(key))
    IN  [j \in 1 .. n |-> points[((i + j - 1) % n) + 1][2]]

---------------------------------------------------------------------------
(* Vector clock engine.                                                    *)

\* sorted(items, key=counter) is stable; the result lists the ADDRESSES
simplify_vector_clock(vc) ==
    LET rank(i) == Cardinality({j \in DOMAIN vc : vc[j][2] < vc[i][2]})
                   + Cardinality({j \in DOMAIN vc : j < i /\ vc[j][2] = vc[i][2]}) + 1
    IN  [r \in DOMAIN vc |-> vc[CHOOSE i \in DOMAIN vc : rank(i) = r][1]]

\* the assert of cmp_vector_clocks fails
cmp_raises(vector1, vector2) == Len(vector1) # Len(vector2)

\* a comparison that reports -1 for every pair it does not find equal
cmp_before_unless_equal(vector1, vector2) ==
    IF \A i \in 1 .. Min(Len(vector1), Len(vector2)) :
           simplify_vector_clock(vector1)[i] = simplify_vector_clock(vector2)[i]
    THEN 0 ELSE -1

cmp_vector_clocks(vector1, vector2) ==
    LET s1 == simplify_vector_clock(vector1)
        s2 == simplify_vector_clock(vector2)
        zip == 1 .. Min(Len(s1), Len(s2))
    IN  IF \A i \in zip : s1[i] = s2[i] THEN 0
        ELSE IF \A i \in zip : s1[i] <= s2[i] THEN -1
        ELSE 1

\* the loop of get_max_vector_clock from element i on, max_vector_clock = m
RECURSIVE max_loop(_, _, _)
max_loop(m, vcs, i) ==
    IF i > Len(vcs) THEN m
    ELSE max_loop(IF cmp_vector_clocks(m, vcs[i]) < 0 THEN vcs[i] ELSE m, vcs, i + 1)

RECURSIVE max_loop_raises(_, _, _)
max_loop_raises(m, vcs, i) ==
    IF i > Len(vcs) THEN FALSE
    ELSE cmp_raises(m, vcs[i])
         \/ max_loop_raises(IF cmp_vector_clocks(m, vcs[i]) < 0 THEN vcs[i] ELSE m, vcs, i + 1)

get_max_vector_clock(vcs) == max_loop(vcs[1], vcs, 1)

get_max_raises(vcs) == vcs = <<>> \/ max_loop_raises(vcs[1], vcs, 1)

\* conflict resolution that keeps every version (siblings) instead of one
resolve_conflicts_siblings(vvs) == vvs

\* a versioned value is <<clock, value>>
resolve_conflicts(vvs) ==
    IF vvs = <<>> THEN <<>>
    ELSE LET max_clock == get_max_vector_clock([i \in DOMAIN vvs |-> vvs[i][1]])
             first == CHOOSE i \in DOMAIN vvs :
                         /\ DictEq(vvs[i][1], max_clock)
                         /\ \A j \in 1 .. i - 1 : ~DictEq(vvs[j][1], max_clock)
         IN  <<vvs[first]>>

resolve_raises(vvs) ==
    vvs # <<>> /\ get_max_raises([i \in DOMAIN vvs |-> vvs[i][1]])

\* update_my_vector_clock: the loop over other's items from item i on;
\* it stops at the first address the clock does not hold (assert False)
RECURSIVE update_loop(_, _, _)
update_loop(vc, other, i) ==
    IF i > Len(other) THEN [vc |-> vc, raised |-> FALSE]
    ELSE IF ~DictHas(vc, other[i][1]) THEN [vc |-> vc, raised |-> TRUE]
    ELSE update_loop(DictSet(vc, other[i][1], Max(DictGet(vc, other[i][1]), other[i][2])),
                     other, i + 1)

update_my_vector_clock(vc, other) == update_loop(vc, other, 1)

---------------------------------------------------------------------------
(* Node state, messages, and what a handler returns.                       *)

\* Node.__init__
NodeInit ==
    [points |-> <<>>, storage |-> <<>>, my_addr |-> 0, addr_to_name |-> <<>>,
     vector_clock |-> <<>>, waiting_get_keys |-> <<>>, waiting_get_keys_quorum |-> <<>>,
     waiting_put |-> <<>>, waiting_put_addr |-> <<>>]

\* A node-to-node message.  name: headers of the join messages (a node
\* name); names: headers of 'addrs' (a directory); points: body of the join
\* messages; key: the key of a get or put message; value, quorum, metadata,
\* vv: the rest of the body of the put messages (vv: 'versioned_value');
\* vv is also the body of 'get global resp'; text: body of ERROR.
Message(type, sender, dst) ==
    [type |-> type, sender |-> sender, dst |-> dst, name |-> "", names |-> <<>>,
     points |-> <<>>, key |-> "", value |-> 0, quorum |-> 0, metadata |-> <<>>,
     vv |-> <<>>, text |-> ""]

\* A message to the local client.  members: body of MEMBERS; pairs: body of
\* LOOKUP_RESP; values, metadata: body of GET_RESP; clock: body of PUT_RESP;
\* count: body of COUNT_RECORDS_RESP; text: body of ERROR.
LocalMessage(type) ==
    [type |-> type, members |-> <<>>, pairs |-> <<>>, values |-> <<>>,
     metadata |-> <<>>, clock |-> <<>>, count |-> 0, text |-> ""]

\* The outcome of one call of receive(): the node's fields afterwards, the
\* messages passed to ctx.send and to ctx.send_local, and the exception
\* that escaped (<<>>: none).
Done(s, out, local) == [s |-> s, out |-> out, local |-> local, raised |-> <<>>]
Raise(s, exception) == [s |-> s, out |-> <<>>, local |-> <<>>, raised |-> <<exception>>]

---------------------------------------------------------------------------
(* receive(): client commands of the join protocol and the directory.      *)

OnJOIN(s, self, seed, rnd) ==
    LET s1 == [s EXCEPT !.my_addr = self,
                        !.addr_to_name = DictSet(@, self, NodeName[self])]
        s2 == [s1 EXCEPT !.points = gen_and_add_points(@, self, rnd)]
    IN  Done(s2,
             IF seed # self
             THEN <<[Message("get addrs and points", self, seed) EXCEPT
                        !.name = NodeName[self], !.points = s2.points]>>
             ELSE <<>>,
             <<>>)

OnGET_MEMBERS(s) ==
    Done(s, <<>>, <<[LocalMessage("MEMBERS") EXCEPT !.members = DictValues(s.addr_to_name)]>>)

OnLOOKUP(s, key) ==
    LET addrs == Take(get_replicas_addrs(key, s.points), NUM_REPLICAS)
    IN  IF \E i \in DOMAIN addrs : ~DictHas(s.addr_to_name, addrs[i])
        THEN Raise(s, "KeyError")
        ELSE Done(s, <<>>,
                  <<[LocalMessage("LOOKUP_RESP") EXCEPT !.pairs =
                        [i \in DOMAIN addrs |-> <<DictGet(s.addr_to_name, addrs[i]), addrs[i]>>]]>>)

---------------------------------------------------------------------------
(* receive(): node-to-node messages of the join protocol.                  *)

OnGetAddrsAndPoints(s, self, msg) ==
    LET s1 == [s EXCEPT !.addr_to_name = DictSet(@, msg.sender, msg.name),
                        !.points = merge_points(@, msg.points),
                        !.vector_clock = DictSet(@, msg.sender, 0)]
    IN  Done(s1,
             <<[Message("addrs", self, msg.sender) EXCEPT
                   !.names = s1.addr_to_name, !.points = s1.points]>>,
             <<>>)

\* vector_clock[addr] = 0 for the addresses of a directory, in its order
RECURSIVE zero_clock(_, _, _)
zero_clock(vc, addrs, i) ==
    IF i > Len(addrs) THEN vc ELSE zero_clock(DictSet(vc, addrs[i], 0), addrs, i + 1)

\* a notification that leaves out the first member of the directory
notified_but_first(names, my_addr, seed) ==
    SelectSeq(Tail(DictKeyList(names)), LAMBDA addr : addr # my_addr /\ addr # seed)

\* the members notified by 'addrs': all but the node itself and the seed
notified(names, my_addr, seed) ==
    SelectSeq(DictKeyList(names), LAMBDA addr : addr # my_addr /\ addr # seed)

OnAddrs(s, self, msg) ==
    LET s1 == [s EXCEPT !.addr_to_name = msg.names,
                        !.vector_clock = zero_clock(@, DictKeyList(msg.names), 1),
                        !.points = merge_points(@, msg.points)]
        to == notified(s1.addr_to_name, s1.my_addr, msg.sender)
    IN  Done(s1,
             [i \in DOMAIN to |->
                 [Message("I joined", self, to[i]) EXCEPT
                     !.name = NodeName[self], !.points = s1.points]],
             <<>>)

\* a handler of 'I joined' that acknowledges the notification
OnIJoined_acknowledged(s, self, msg) ==
    Done([s EXCEPT !.addr_to_name = DictSet(@, msg.sender, msg.name),
                   !.points = merge_points(@, msg.points),
                   !.vector_clock = DictSet(@, msg.sender, 0)],
         <<[Message("I joined", self, msg.sender) EXCEPT
               !.name = NodeName[self], !.points = s.points]>>,
         <<>>)

OnIJoined(s, self, msg) ==
    Done([s EXCEPT !.addr_to_name = DictSet(@, msg.sender, msg.name),
                   !.points = merge_points(@, msg.points),
                   !.vector_clock = DictSet(@, msg.sender, 0)],
         <<>>, <<>>)

---------------------------------------------------------------------------
(* receive(): GET and PUT, at the entry node, the replicas and the         *)
(* coordinator.                                                            *)

OnGET(s, self, key, quorum) ==
    LET addrs == Take(get_replicas_addrs(key, s.points), NUM_REPLICAS)
    IN  Done([s EXCEPT !.waiting_get_keys = MapSet(@, key, <<>>),
                       !.waiting_get_keys_quorum = MapSet(@, key, quorum)],
             [i \in DOMAIN addrs |-> [Message("get global", self, addrs[i]) EXCEPT !.key = key]],
             <<>>)

\* body: the fields key, value, quorum and (optional) metadata of the command
OnPUT(s, self, body) ==
    IF s.points = <<>>
    THEN Raise(s, "IndexError")
    ELSE Done(s,
              <<[Message("put for coordinator", self, get_replicas_addrs(body.key, s.points)[1])
                    EXCEPT !.key = body.key, !.value = body.value,
                           !.quorum = body.quorum, !.metadata = body.metadata]>>,
              <<>>)

OnGetGlobal(s, self, msg) ==
    Done(s,
         <<[Message("get global resp", self, msg.sender) EXCEPT
               !.key = msg.key,
               !.vv = IF msg.key \in DOMAIN s.storage THEN <<s.storage[msg.key]>> ELSE <<>>]>>,
         <<>>)

\* the replies that are not None, in the order collected
not_none(replies) ==
    LET some == SelectSeq(replies, LAMBDA x : x # <<>>)
    IN  [i \in DOMAIN some |-> some[i][1]]

OnGetGlobalResp(s, self, msg) ==
    LET key == msg.key
    IN  IF key \notin DOMAIN s.waiting_get_keys
        THEN Done(s, <<>>, <<>>)
        ELSE LET versioned_values == Append(s.waiting_get_keys[key], msg.vv)
                 s1 == [s EXCEPT !.waiting_get_keys[key] = versioned_values]
             IN  IF Len(versioned_values) # s.waiting_get_keys_quorum[key]
                 THEN Done(s1, <<>>, <<>>)
                 ELSE IF resolve_raises(not_none(versioned_values))
                 THEN Raise(s1, "AssertionError")
                 ELSE LET resolved == resolve_conflicts(not_none(versioned_values))
                      IN  Done([s1 EXCEPT
                                   !.waiting_get_keys = MapPop(@, key),
                                   !.waiting_get_keys_quorum = MapPop(@, key)],
                               <<>>,
                               <<[LocalMessage("GET_RESP") EXCEPT
                                     !.values = [i \in DOMAIN resolved |-> resolved[i][2]],
                                     !.metadata = [i \in DOMAIN resolved |-> resolved[i][1]]]>>)

OnPutForCoordinator(s, self, msg) ==
    LET upd == IF msg.metadata # <<>>
               THEN update_my_vector_clock(s.vector_clock, msg.metadata[1])
               ELSE [vc |-> s.vector_clock, raised |-> FALSE]
        s1 == [s EXCEPT !.vector_clock = upd.vc]
    IN  IF upd.raised THEN Raise(s1, "AssertionError")
        ELSE IF ~DictHas(s1.vector_clock, s1.my_addr) THEN Raise(s1, "KeyError")
        ELSE LET vc == DictSet(s1.vector_clock, s1.my_addr,
                               DictGet(s1.vector_clock, s1.my_addr) + 1)
                 addrs == Take(get_replicas_addrs(msg.key, s1.points), NUM_REPLICAS)
             IN  Done([s1 EXCEPT !.vector_clock = vc,
                                 !.waiting_put = MapSet(@, msg.key, 0),
                                 !.waiting_put_addr = MapSet(@, msg.key, msg.sender)],
                      [i \in DOMAIN addrs |->
                          [msg EXCEPT !.type = "put global", !.sender = self,
                                      !.dst = addrs[i], !.vv = <<<<vc, msg.value>>>>]],
                      <<>>)

\* a replica write that keeps the value it holds for the key, if any
OnPutGlobal_keep_stored(s, self, msg) ==
    Done(IF msg.key \in DOMAIN s.storage THEN s
         ELSE [s EXCEPT !.storage = MapSet(@, msg.key, msg.vv[1])],
         <<[msg EXCEPT !.type = "put global resp", !.sender = self, !.dst = msg.sender]>>,
         <<>>)

OnPutGlobal(s, self, msg) ==
    Done([s EXCEPT !.storage = MapSet(@, msg.key, msg.vv[1])],
         <<[msg EXCEPT !.type = "put global resp", !.sender = self, !.dst = msg.sender]>>,
         <<>>)

\* At the quorum the arguments of ctx.send are evaluated: storage[key][0],
\* then waiting_put_addr[op_key], and op_key is no name of the function.
OnPutGlobalResp(s, self, msg) ==
    LET key == msg.key
    IN  IF key \notin DOMAIN s.waiting_put
        THEN Done(s, <<>>, <<>>)
        ELSE LET s1 == [s EXCEPT !.waiting_put[key] = @ + 1]
             IN  IF s1.waiting_put[key] # msg.quorum THEN Done(s1, <<>>, <<>>)
                 ELSE IF key \notin DOMAIN s1.storage THEN Raise(s1, "KeyError")
                 ELSE Raise(s1, "NameError")

\* body of 'put for coordinator resp': a clock, carried in metadata
OnPutForCoordinatorResp(s, self, msg) ==
    Done(s, <<>>, <<[LocalMessage("PUT_RESP") EXCEPT !.clock = msg.metadata[1]]>>)

\* the else branch of the client commands: a command receive() does not know
OnUnknownCommand(s, type) ==
    Done(s, <<>>, <<[LocalMessage("ERROR") EXCEPT !.text = "unknown command: " \o type]>>)

\* an unknown message that is dropped without a reply
OnUnknownMessage_dropped(s, self, msg) == Done(s, <<>>, <<>>)

\* the else branch of the node-to-node messages
OnUnknownMessage(s, self, msg) ==
    Done(s,
         <<[Message("ERROR", self, msg.sender) EXCEPT !.text = "unknown message: " \o msg.type]>>,
         <<>>)

---------------------------------------------------------------------------
(* The runtime: one call of receive() per step.                            *)

SeqToBag(seq) == [m \in Range(seq) |-> Cardinality({i \in DOMAIN seq : seq[i] = m})]

InFlight == BagToSet(net)

\* Node n ran a handler with outcome r on the messages `consumed`.  An
\* exception that escapes receive() is recorded; the runtime (not part of
\* the sources) either goes on with the next message or stops the node.
Apply(n, r, consumed) ==
    /\ node' = [node EXCEPT ![n] = r.s]
    /\ net' = (net (-) consumed) (+) SeqToBag(r.out)
    /\ client' = [client EXCEPT ![n] = @ \o r.local]
    /\ raised' = [raised EXCEPT ![n] = @ \cup Range(r.raised)]
    /\ \E stop \in (IF r.raised = <<>> THEN {FALSE} ELSE BOOLEAN) :
          running' = [running EXCEPT ![n] = ~stop]
    /\ UNCHANGED <<calc, elsewhere>>

\* a message of the given type is delivered to its destination
Receives(m, type) ==
    /\ m \in InFlight
    /\ m.type = type
    /\ running[m.dst]

Joined == {n \in Nodes : node[n].my_addr # 0}

\* positions drawn so far: every point is in its owner's list
Drawn == UNION {{p[1] : p \in Range(node[n].points)} : n \in Nodes}

\* History of the client's commands.  joins, queries: commands handled;
\* settled: every JOIN so far was handled by a node that had not joined,
\* with no message in flight, and named a member as its seed (itself for
\* the first node).  gets[i]: the i-th GET admitted (entry node, key,
\* quorum, the value a completed write promises it (0: none), whether the
\* key had never been written, and, once its GET_RESP is delivered, the
\* replies collected for it and the GET_RESP).  puts[v]:
\* the PUT of value v (entry node, key, quorum, the acknowledgements its
\* coordinator has received, the clock stamped on it).
\* late: of the fetch messages in flight ('get global' and 'get global
\* resp'), how many copies belong to a GET that has been answered.
HistInit ==
    [joins |-> 0, queries |-> 0, settled |-> TRUE, gets |-> <<>>, puts |-> <<>>,
     late |-> EmptyBag]

\* the fetch messages of the GETs of node n on a key, among those of a bag
Fetches(bag, n, key) ==
    LET S == {m \in BagToSet(bag) :
                 /\ m.key = key
                 /\ \/ m.type = "get global" /\ m.sender = n
                    \/ m.type = "get global resp" /\ m.dst = n}
    IN  [m \in S |-> bag[m]]

\* the late copies that are still in flight
StillLate(late, bag) ==
    LET S == {m \in BagToSet(late) : CopiesIn(m, bag) > 0}
    IN  [m \in S |-> Min(late[m], bag[m])]

\* node n answers a GET on a key: all its fetch messages in flight are late
LateOnAnswer(late, bag, n, key) ==
    LET f == Fetches(bag, n, key)
        S == {m \in BagToSet(late) : CopiesIn(m, bag) > 0 /\ CopiesIn(m, f) = 0}
    IN  [m \in S |-> Min(late[m], bag[m])] (+) f

\* every copy in flight of the message m is late
Late(m) == CopiesIn(m, hist.late) > 0 /\ CopiesIn(m, hist.late) = CopiesIn(m, net)

\* no clock drawn, no function called
NoCalc ==
    [vcs |-> <<>>, cmp |-> <<>>, max |-> <<>>, cmps |-> <<>>, merge |-> <<>>, mixed |-> <<>>]

\* kv-sharding: Node.__init__, and the program before any command
ShardNodes == {1, 2, 3}

ShardNodeInit ==
    [points |-> <<>>, storage |-> <<>>, my_addr |-> 0, addr_to_name |-> <<>>,
     waiting_get_keys |-> {}, waiting_put_keys_values |-> {}, waiting_delete_keys |-> {}]

ShardInit ==
    [node |-> [n \in ShardNodes |-> ShardNodeInit],
     net |-> EmptyBag,
     client |-> [n \in ShardNodes |-> <<>>],
     raised |-> [n \in ShardNodes |-> {}],
     running |-> [n \in ShardNodes |-> TRUE],
     cmds |-> <<>>]

\* rpc: StoreImpl.__init__ and RpcServer.__init__.  net: messages on their
\* way to the server; sent: the messages the server sent, in order; calls:
\* invocations of the service so far, issued: the call of each identifier
\* used so far (both read by the properties and the environment only).
RpcInit ==
    [data |-> <<>>, id_to_msg_response |-> <<>>, net |-> EmptyBag, sent |-> <<>>,
     calls |-> 0, issued |-> <<>>]

\* membership: Node.__init__ (which calls on_leave), and the program before
\* any command.  timer[n]: the 'gossip' timer of n is set; now: the value
\* of time.time(); log: the commands handled (read by the properties only).
MembNodes == {1, 2, 3}

MembNodeInit == [counter |-> 0, mem_list |-> <<>>, addr_to_name |-> <<>>]

MembInit ==
    [node |-> [n \in MembNodes |-> MembNodeInit],
     net |-> EmptyBag,
     timer |-> [n \in MembNodes |-> FALSE],
     raised |-> [n \in MembNodes |-> {}],
     now |-> 0,
     gossips |-> 0,
     log |-> <<>>]

\* broadcast: Peer.__init__ and the first lines of Peer.run, for the peers
\* of the chat.  A peer's address is its name and every peer is started
\* with the addresses of all of them.  local[p]: the DELIVER messages p
\* sent to its user; delivered[p], before and held are read by the
\* properties only: the arguments of deliver_local at p in order, for every
\* message sent the messages its sender had delivered by then, and the
\* <<peer, message>> pairs where the message was stored and not delivered
\* in the same step.
PEER_NAMES == <<"Alice", "Bob", "Carl", "Dan", "Eve">>

BcastPeers == <<"Alice", "Bob", "Carl">>

PeerInit ==
    [num_msg_sent |-> 0,
     received_cnt |-> <<>>,
     user_to_num_delivered |-> [user \in Range(PEER_NAMES) |-> 0],
     user_to_id_to_msg |-> [user \in Range(PEER_NAMES) |-> <<>>]]

BcastInit ==
    [peer |-> [p \in Range(BcastPeers) |-> PeerInit],
     net |-> EmptyBag,
     local |-> [p \in Range(BcastPeers) |-> <<>>],
     delivered |-> [p \in Range(BcastPeers) |-> <<>>],
     before |-> <<>>,
     held |-> {},
     sends |-> 0]

Init ==
    /\ bcast = BcastInit
    /\ memb = MembInit
    /\ rpc = RpcInit
    /\ shard = ShardInit
    /\ node = [n \in Nodes |-> NodeInit]
    /\ net = EmptyBag
    /\ client = [n \in Nodes |-> <<>>]
    /\ raised = [n \in Nodes |-> {}]
    /\ running = [n \in Nodes |-> TRUE]
    /\ hist = HistInit
    /\ calc = NoCalc

JOIN(n, seed, rnd) ==
    /\ running[n]
    /\ rnd \in Positions \ Drawn
    /\ seed = n \/ seed \in Joined
    /\ Apply(n, OnJOIN(node[n], n, seed, rnd), EmptyBag)
    /\ hist' = [hist EXCEPT !.joins = @ + 1,
                            !.settled = /\ @
                                        /\ net = EmptyBag
                                        /\ n \notin Joined
                                        /\ IF Joined = {} THEN seed = n ELSE seed \in Joined]

GET_MEMBERS(n) ==
    /\ running[n]
    /\ hist.queries < MaxQueries
    /\ Apply(n, OnGET_MEMBERS(node[n]), EmptyBag)
    /\ hist' = [hist EXCEPT !.queries = @ + 1]

LOOKUP(n, key) ==
    /\ running[n]
    /\ hist.queries < MaxQueries
    /\ Apply(n, OnLOOKUP(node[n], key), EmptyBag)
    /\ hist' = [hist EXCEPT !.queries = @ + 1]

RecvGetAddrsAndPoints(m) ==
    /\ Receives(m, "get addrs and points")
    /\ Apply(m.dst, OnGetAddrsAndPoints(node[m.dst], m.dst, m), SetToBag({m}))
    /\ UNCHANGED hist

RecvAddrs(m) ==
    /\ Receives(m, "addrs")
    /\ Apply(m.dst, OnAddrs(node[m.dst], m.dst, m), SetToBag({m}))
    /\ UNCHANGED hist

RecvIJoined(m) ==
    /\ Receives(m, "I joined")
    /\ Apply(m.dst, OnIJoined(node[m.dst], m.dst, m), SetToBag({m}))
    /\ UNCHANGED hist

\* the PUTs admitted on a key, and the latest of them (0: none)
PutsOn(key) == {v \in DOMAIN hist.puts : hist.puts[v].key = key}
LastPut(key) == IF PutsOn(key) = {} THEN 0 ELSE CHOOSE v \in PutsOn(key) : \A w \in PutsOn(key) : w <= v

\* the write quorum of PUT v has completed: its coordinator has received
\* writeQuorum acknowledgements of it
QuorumDone(h, v) == h.puts[v].acks >= h.puts[v].quorum

\* the GET that the pending entry (n, key) stands for: the latest admitted
GetsAt(n, key) == {i \in DOMAIN hist.gets : hist.gets[i].entry = n /\ hist.gets[i].key = key}
PendingGet(n, key) == CHOOSE i \in GetsAt(n, key) : \A j \in GetsAt(n, key) : j <= i

GET(n, key, quorum) ==
    /\ running[n]
    /\ Len(hist.gets) < MaxGets
    /\ Apply(n, OnGET(node[n], n, key, quorum), EmptyBag)
    /\ hist' = [hist EXCEPT !.gets = Append(@,
                   [entry |-> n, key |-> key, quorum |-> quorum,
                    promised |-> IF LastPut(key) # 0 /\ QuorumDone(hist, LastPut(key))
                                 THEN LastPut(key) ELSE 0,
                    unwritten |-> PutsOn(key) = {},
                    collected |-> <<>>,
                    resp |-> <<>>])]

\* clocks the clients have been shown: what a PUT can carry as metadata
SeenClocks ==
    UNION {UNION {Range(client[n][i].metadata) \cup Range(client[n][i].clock)
                  : i \in DOMAIN client[n]} : n \in Nodes}

PUT(n, key, quorum, metadata) ==
    /\ running[n]
    /\ Len(hist.puts) < MaxPuts
    /\ metadata = <<>> \/ (metadata # <<>> /\ metadata[1] \in SeenClocks)
    /\ Apply(n, OnPUT(node[n], n, [key |-> key, value |-> Len(hist.puts) + 1,
                                   quorum |-> quorum, metadata |-> metadata]), EmptyBag)
    /\ hist' = [hist EXCEPT !.puts = Append(@,
                   [entry |-> n, key |-> key, quorum |-> quorum, acks |-> 0, stamped |-> <<>>])]

RecvGetGlobal(m) ==
    /\ Receives(m, "get global")
    /\ LET r == OnGetGlobal(node[m.dst], m.dst, m)
       IN  /\ Apply(m.dst, r, SetToBag({m}))
           /\ hist' = [hist EXCEPT !.late =
                          IF Late(m) THEN (@ (-) SetToBag({m})) (+) SeqToBag(r.out)
                          ELSE StillLate(@, net')]

RecvGetGlobalResp(m) ==
    /\ Receives(m, "get global resp")
    /\ LET r == OnGetGlobalResp(node[m.dst], m.dst, m)
       IN  /\ Apply(m.dst, r, SetToBag({m}))
           /\ hist' = IF r.local = <<>> THEN [hist EXCEPT !.late = StillLate(@, net')]
                      ELSE [hist EXCEPT
                               !.gets[PendingGet(m.dst, m.key)].resp = r.local,
                               !.gets[PendingGet(m.dst, m.key)].collected =
                                   Append(node[m.dst].waiting_get_keys[m.key], m.vv),
                               !.late = LateOnAnswer(@, net', m.dst, m.key)]

RecvPutForCoordinator(m) ==
    /\ Receives(m, "put for coordinator")
    /\ LET r == OnPutForCoordinator(node[m.dst], m.dst, m)
       IN  /\ Apply(m.dst, r, SetToBag({m}))
           /\ hist' = IF r.raised # <<>> THEN hist
                      ELSE [hist EXCEPT !.puts[m.value].stamped = <<r.s.vector_clock>>]

RecvPutGlobal(m) ==
    /\ Receives(m, "put global")
    /\ Apply(m.dst, OnPutGlobal(node[m.dst], m.dst, m), SetToBag({m}))
    /\ UNCHANGED hist

RecvPutGlobalResp(m) ==
    /\ Receives(m, "put global resp")
    /\ Apply(m.dst, OnPutGlobalResp(node[m.dst], m.dst, m), SetToBag({m}))
    /\ hist' = [hist EXCEPT !.puts[m.value].acks = @ + 1]

RecvPutForCoordinatorResp(m) ==
    /\ Receives(m, "put for coordinator resp")
    /\ Apply(m.dst, OnPutForCoordinatorResp(node[m.dst], m.dst, m), SetToBag({m}))
    /\ UNCHANGED hist

---------------------------------------------------------------------------
(* Specifications.                                                         *)

\* The join protocol alone: JOIN commands at any moment, also concurrent
\* and repeated ones, and the directory queries.
NextJoin ==
    \/ \E n \in Nodes, seed \in Nodes, rnd \in Positions :
          hist.joins < MaxJoins /\ JOIN(n, seed, rnd)
    \/ \E n \in Nodes : GET_MEMBERS(n)
    \/ \E n \in Nodes, key \in Keys : LOOKUP(n, key)
    \/ \E m \in InFlight : RecvGetAddrsAndPoints(m)
    \/ \E m \in InFlight : RecvAddrs(m)
    \/ \E m \in InFlight : RecvIJoined(m)

SpecJoin == Init /\ [][NextJoin]_vars

\* The client joins the nodes one at a time: a node that has not joined,
\* when no message is in flight, with a member as seed.
OneAtATime(n, seed) ==
    /\ n \notin Joined
    /\ net = EmptyBag
    /\ IF Joined = {} THEN seed = n ELSE seed \in Joined

\* Nodes joined one at a time, and the directory queries.
NextSettled ==
    \/ \E n \in Nodes, seed \in Nodes, rnd \in Positions :
          OneAtATime(n, seed) /\ JOIN(n, seed, rnd)
    \/ \E n \in Nodes : GET_MEMBERS(n)
    \/ \E n \in Nodes, key \in Keys : LOOKUP(n, key)
    \/ \E m \in InFlight : RecvGetAddrsAndPoints(m)
    \/ \E m \in InFlight : RecvAddrs(m)
    \/ \E m \in InFlight : RecvIJoined(m)

SpecSettled == Init /\ [][NextSettled]_vars

\* The cluster of the store: the nodes 1..MaxMembers join one at a time, in
\* the order of their addresses, before the first GET or PUT.
Forming(n, seed, rnd) ==
    /\ n = Cardinality(Joined) + 1
    /\ n <= MaxMembers
    /\ rnd <= MaxMembers
    /\ OneAtATime(n, seed)

Formed == Cardinality(Joined) = MaxMembers /\ net = EmptyBag

\* every command of the client so far is complete: a GET by its GET_RESP, a
\* PUT by the writeQuorum acknowledgements that make its PUT_RESP due
Idle ==
    /\ \A i \in DOMAIN hist.gets : hist.gets[i].resp # <<>>
    /\ \A v \in DOMAIN hist.puts : QuorumDone(hist, v)

\* the quorum size of the commands so far is q: a run uses one size for
\* reads and writes, a majority, so that writeQuorum + readQuorum > N
OneQuorum(q) ==
    /\ 2 * q > NUM_REPLICAS
    /\ \A i \in DOMAIN hist.gets : hist.gets[i].quorum = q
    /\ \A v \in DOMAIN hist.puts : hist.puts[v].quorum = q

Requests == Len(hist.gets) + Len(hist.puts)

\* a GET or PUT may start: the cluster has formed, or a command was started
Started == Requests > 0 \/ Formed

\* The store with a client that sends its next command when the one before
\* is complete; messages left over by completed commands stay in flight.
\* No step sends 'put for coordinator resp' (the handler of 'put global
\* resp' raises before that send), so its handler takes no step.
Next ==
    \/ \E n \in Nodes, seed \in Nodes, rnd \in Positions :
          Forming(n, seed, rnd) /\ JOIN(n, seed, rnd)
    \/ \E n \in Clients, key \in StoreKeys, quorum \in 1 .. NUM_REPLICAS :
          /\ Started /\ Idle /\ OneQuorum(quorum) /\ Requests < MaxRequests
          /\ GET(n, key, quorum)
    \/ \E n \in Clients, key \in StoreKeys, quorum \in 1 .. NUM_REPLICAS,
          metadata \in {<<>>} \cup {<<c>> : c \in SeenClocks} :
          /\ Started /\ Idle /\ OneQuorum(quorum) /\ Requests < MaxRequests
          /\ PUT(n, key, quorum, metadata)
    \/ \E m \in InFlight : RecvGetAddrsAndPoints(m)
    \/ \E m \in InFlight : RecvAddrs(m)
    \/ \E m \in InFlight : RecvIJoined(m)
    \/ \E m \in InFlight : RecvGetGlobal(m)
    \/ \E m \in InFlight : RecvGetGlobalResp(m)
    \/ \E m \in InFlight : RecvPutForCoordinator(m)
    \/ \E m \in InFlight : RecvPutGlobal(m)
    \/ \E m \in InFlight : RecvPutGlobalResp(m)

Spec == Init /\ [][Next]_vars

\* The store with commands of one kind (GETs, or PUTs) sent at any moment,
\* also while an earlier one is pending.
NextConcurrent ==
    \/ \E n \in Nodes, seed \in Nodes, rnd \in Positions :
          Forming(n, seed, rnd) /\ JOIN(n, seed, rnd)
    \/ \E n \in Clients, key \in StoreKeys, quorum \in 1 .. NUM_REPLICAS :
          /\ Started /\ hist.puts = <<>> /\ Requests < MaxConcurrent
          /\ GET(n, key, quorum)
    \/ \E n \in Clients, key \in StoreKeys, quorum \in 1 .. NUM_REPLICAS :
          /\ Started /\ hist.gets = <<>> /\ Requests < MaxConcurrent
          /\ PUT(n, key, quorum, <<>>)
    \/ \E m \in InFlight : RecvGetAddrsAndPoints(m)
    \/ \E m \in InFlight : RecvAddrs(m)
    \/ \E m \in InFlight : RecvIJoined(m)
    \/ \E m \in InFlight : RecvGetGlobal(m)
    \/ \E m \in InFlight : RecvGetGlobalResp(m)
    \/ \E m \in InFlight : RecvPutForCoordinator(m)
    \/ \E m \in InFlight : RecvPutGlobal(m)
    \/ \E m \in InFlight : RecvPutGlobalResp(m)

SpecConcurrent == Init /\ [][NextConcurrent]_vars

\* The vector clock functions called on their own: a list of clocks over
\* ClockAddrs is drawn, every insertion order and every counter up to
\* MaxCounter, and the functions are applied to it.
ClockSet ==
    {vc \in [1 .. Cardinality(ClockAddrs) -> ClockAddrs \X (0 .. MaxCounter)] :
        DictKeys(vc) = ClockAddrs}

DrawClock(vc) ==
    /\ Len(calc.vcs) < MaxClocks
    /\ calc.merge = <<>> /\ calc.mixed = <<>>
    /\ calc' = [NoCalc EXCEPT !.vcs = Append(calc.vcs, vc)]
    /\ UNCHANGED <<node, net, client, raised, running, hist, elsewhere>>

CallCmp ==
    /\ Len(calc.vcs) >= 2
    /\ ~cmp_raises(calc.vcs[1], calc.vcs[2])
    /\ calc' = [NoCalc EXCEPT !.vcs = calc.vcs,
                               !.cmp = <<cmp_vector_clocks(calc.vcs[1], calc.vcs[2])>>]
    /\ UNCHANGED <<node, net, client, raised, running, hist, elsewhere>>

CallGetMax ==
    /\ ~get_max_raises(calc.vcs)
    /\ calc' = [NoCalc EXCEPT !.vcs = calc.vcs,
                               !.max = <<get_max_vector_clock(calc.vcs)>>]
    /\ UNCHANGED <<node, net, client, raised, running, hist, elsewhere>>

\* cmp_vector_clocks called on every pair of the clocks drawn: cmps[i][j]
\* is the result for the i-th and the j-th
CallCmpPairs ==
    /\ calc.vcs # <<>>
    /\ calc' = [NoCalc EXCEPT !.vcs = calc.vcs,
                               !.cmps = [i \in DOMAIN calc.vcs |->
                                            [j \in DOMAIN calc.vcs |->
                                                cmp_vector_clocks(calc.vcs[i], calc.vcs[j])]]]
    /\ UNCHANGED <<node, net, client, raised, running, hist, elsewhere>>

\* clocks over any non-empty set of addresses: what a node may hold and
\* what it may be sent
AnyClockSet ==
    UNION {{vc \in [1 .. Cardinality(A) -> A \X (0 .. MaxCounter)] : DictKeys(vc) = A}
           : A \in SUBSET ClockAddrs \ {{}}}

\* update_my_vector_clock called on a node whose clock is a, with b: ab,
\* and with the arguments exchanged: ba, and on the outcome of the first
\* call, into a again: aab (the clock an assert leaves behind included)
CallMerge(a, b) ==
    /\ calc = NoCalc
    /\ calc' = [NoCalc EXCEPT !.merge =
                   <<[a |-> a, b |-> b,
                      ab |-> update_my_vector_clock(a, b),
                      ba |-> update_my_vector_clock(b, a),
                      aab |-> update_my_vector_clock(a, update_my_vector_clock(a, b).vc)]>>]
    /\ UNCHANGED <<node, net, client, raised, running, hist, elsewhere>>

\* cmp_vector_clocks called with the clocks a and b, over any address
\* sets: whether its assert failed, and what it returned if not
CallCmpMixed(a, b) ==
    /\ calc = NoCalc
    /\ calc' = [NoCalc EXCEPT !.mixed =
                   <<[a |-> a, b |-> b,
                      raised |-> cmp_raises(a, b),
                      result |-> IF cmp_raises(a, b) THEN <<>>
                                 ELSE <<cmp_vector_clocks(a, b)>>]>>]
    /\ UNCHANGED <<node, net, client, raised, running, hist, elsewhere>>

NextClocks ==
    \/ \E vc \in ClockSet : DrawClock(vc)
    \/ CallCmp
    \/ CallGetMax
    \/ CallCmpPairs
    \/ \E a \in AnyClockSet, b \in AnyClockSet : CallMerge(a, b)
    \/ \E a \in AnyClockSet, b \in AnyClockSet : CallCmpMixed(a, b)

SpecClocks == Init /\ [][NextClocks]_vars

\* The store with PUTs only, on any key and at any moment, also while an
\* earlier one is pending.
NextWrites ==
    \/ \E n \in Nodes, seed \in Nodes, rnd \in Positions :
          Forming(n, seed, rnd) /\ JOIN(n, seed, rnd)
    \/ \E n \in Clients, key \in Keys, quorum \in 1 .. NUM_REPLICAS :
          /\ Started /\ OneQuorum(quorum) /\ Requests < MaxConcurrent
          /\ PUT(n, key, quorum, <<>>)
    \/ \E m \in InFlight : RecvGetAddrsAndPoints(m)
    \/ \E m \in InFlight : RecvAddrs(m)
    \/ \E m \in InFlight : RecvIJoined(m)
    \/ \E m \in InFlight : RecvPutForCoordinator(m)
    \/ \E m \in InFlight : RecvPutGlobal(m)
    \/ \E m \in InFlight : RecvPutGlobalResp(m)

SpecWrites == Init /\ [][NextWrites]_vars

\* The nodes 1..MaxMembers join in the order of their addresses, each with a
\* member as seed, and the next may join while the messages of the one
\* before are in flight.
Joining(n, seed, rnd) ==
    /\ n = Cardinality(Joined) + 1
    /\ n <= MaxMembers
    /\ rnd <= MaxMembers
    /\ IF Joined = {} THEN seed = n ELSE seed \in Joined

\* The store while the cluster forms: a member's client sends PUT at any
\* moment, also while join messages are in flight.
NextJoining ==
    \/ \E n \in Nodes, seed \in Nodes, rnd \in Positions :
          Joining(n, seed, rnd) /\ JOIN(n, seed, rnd)
    \/ \E n \in Clients \cap Joined, key \in StoreKeys, quorum \in 1 .. NUM_REPLICAS :
          /\ OneQuorum(quorum) /\ Len(hist.puts) < MaxEarlyPuts
          /\ PUT(n, key, quorum, <<>>)
    \/ \E m \in InFlight : RecvGetAddrsAndPoints(m)
    \/ \E m \in InFlight : RecvAddrs(m)
    \/ \E m \in InFlight : RecvIJoined(m)
    \/ \E m \in InFlight : RecvPutForCoordinator(m)
    \/ \E m \in InFlight : RecvPutGlobal(m)
    \/ \E m \in InFlight : RecvPutGlobalResp(m)

SpecJoining == Init /\ [][NextJoining]_vars

\* The store with a client that reads key x and writes any key, one command
\* at a time, passing to a PUT a clock it was shown.
NextMetadata ==
    \/ \E n \in Nodes, seed \in Nodes, rnd \in Positions :
          Forming(n, seed, rnd) /\ JOIN(n, seed, rnd)
    \/ \E n \in Clients, key \in StoreKeys, quorum \in 1 .. NUM_REPLICAS :
          /\ Started /\ Idle /\ OneQuorum(quorum) /\ Requests < MaxRequests
          /\ GET(n, key, quorum)
    \/ \E n \in Clients, key \in Keys, quorum \in 1 .. NUM_REPLICAS,
          metadata \in {<<>>} \cup {<<c>> : c \in SeenClocks} :
          /\ Started /\ Idle /\ OneQuorum(quorum) /\ Requests < MaxRequests
          /\ PUT(n, key, quorum, metadata)
    \/ \E m \in InFlight : RecvGetAddrsAndPoints(m)
    \/ \E m \in InFlight : RecvAddrs(m)
    \/ \E m \in InFlight : RecvIJoined(m)
    \/ \E m \in InFlight : RecvGetGlobal(m)
    \/ \E m \in InFlight : RecvGetGlobalResp(m)
    \/ \E m \in InFlight : RecvPutForCoordinator(m)
    \/ \E m \in InFlight : RecvPutGlobal(m)
    \/ \E m \in InFlight : RecvPutGlobalResp(m)

SpecMetadata == Init /\ [][NextMetadata]_vars

\* a command may be sent to node n: n has handled no JOIN, or it is a
\* client's node and every member has
Early(n) ==
    \/ n \notin Joined
    \/ n \in Clients /\ Cardinality(Joined) = MaxMembers

\* The store with commands sent also to nodes that have handled no JOIN and
\* have no ring points.
NextEmptyRing ==
    \/ \E n \in Nodes, seed \in Nodes, rnd \in Positions :
          Forming(n, seed, rnd) /\ JOIN(n, seed, rnd)
    \/ \E n \in Nodes, key \in StoreKeys, quorum \in 1 .. NUM_REPLICAS :
          /\ Early(n) /\ OneQuorum(quorum) /\ Requests + hist.queries < MaxEarly
          /\ GET(n, key, quorum)
    \/ \E n \in Nodes, key \in StoreKeys, quorum \in 1 .. NUM_REPLICAS :
          /\ Early(n) /\ OneQuorum(quorum) /\ Requests + hist.queries < MaxEarly
          /\ PUT(n, key, quorum, <<>>)
    \/ \E n \in Nodes, key \in StoreKeys :
          /\ Early(n) /\ Requests + hist.queries < MaxEarly
          /\ LOOKUP(n, key)
    \/ \E m \in InFlight : RecvGetAddrsAndPoints(m)
    \/ \E m \in InFlight : RecvAddrs(m)
    \/ \E m \in InFlight : RecvIJoined(m)
    \/ \E m \in InFlight : RecvGetGlobal(m)
    \/ \E m \in InFlight : RecvGetGlobalResp(m)
    \/ \E m \in InFlight : RecvPutForCoordinator(m)
    \/ \E m \in InFlight : RecvPutGlobal(m)
    \/ \E m \in InFlight : RecvPutGlobalResp(m)

SpecEmptyRing == Init /\ [][NextEmptyRing]_vars

\* the types receive() has a branch for
KnownCommands ==
    {"JOIN", "LEAVE", "GET_MEMBERS", "GET", "PUT", "LOOKUP", "COUNT_RECORDS"}
KnownMessages ==
    {"get addrs and points", "addrs", "I joined", "get global", "get global resp",
     "put for coordinator", "put global", "put global resp", "put for coordinator resp"}

\* types it has none for, as a client or a foreign sender may use them
UnknownCommands == {"DELETE"}
UnknownMessages == {"ping"}

UNKNOWN_COMMAND(n, type) ==
    /\ running[n]
    /\ type \notin KnownCommands
    /\ hist.queries < MaxQueries
    /\ Apply(n, OnUnknownCommand(node[n], type), EmptyBag)
    /\ hist' = [hist EXCEPT !.queries = @ + 1]

\* a message of a type receive() does not know arrives in the network,
\* under the address of a node; one at a time
SendUnknown(sender, dst, type) ==
    /\ sender # dst
    /\ type \notin KnownMessages
    /\ \A m \in InFlight : m.type \in KnownMessages
    /\ net' = net (+) SetToBag({Message(type, sender, dst)})
    /\ UNCHANGED <<node, client, raised, running, hist, calc, elsewhere>>

\* a node receives a message of a type it has no branch for; the ERROR
\* it is answered with is such a message for the node that receives it
RecvUnknown(m) ==
    /\ m \in InFlight
    /\ m.type \notin KnownMessages
    /\ running[m.dst]
    /\ Apply(m.dst, OnUnknownMessage(node[m.dst], m.dst, m), SetToBag({m}))
    /\ UNCHANGED hist

\* The cluster forming, with commands and messages of unknown types.
NextErrors ==
    \/ \E n \in Nodes, seed \in Nodes, rnd \in Positions :
          Forming(n, seed, rnd) /\ JOIN(n, seed, rnd)
    \/ \E m \in InFlight : RecvGetAddrsAndPoints(m)
    \/ \E m \in InFlight : RecvAddrs(m)
    \/ \E m \in InFlight : RecvIJoined(m)
    \/ \E n \in Nodes, type \in UnknownCommands : UNKNOWN_COMMAND(n, type)
    \/ \E sender \in Nodes, dst \in Nodes, type \in UnknownMessages :
          SendUnknown(sender, dst, type)
    \/ \E m \in InFlight : RecvUnknown(m)

SpecErrors == Init /\ [][NextErrors]_vars

---------------------------------------------------------------------------
(* Part 2: homework/kv-sharding/solution/node.py, the sharded key-value    *)
(* node.  A message is [type, sender, dst, headers, body]; the body of PUT *)
(* and of the put messages, the string 'key=value', is the pair            *)
(* <<key, value>>; a value is a string, and '' the not-found value.        *)

ShardKeys == {"x", "y"}
ShardValues == {"a"}

ShardMessage(type, sender, dst, headers, body) ==
    [type |-> type, sender |-> sender, dst |-> dst, headers |-> headers, body |-> body]

ShardLocal(type, body) == [type |-> type, body |-> body]

DEFAULT_GET_RESPONSE == ""

\* gen_and_add_points with the floats rnds drawn by random.random()
shard_gen_and_add_points(points, my_addr, rnds) ==
    SortPoints(points \o SetSorted({<<r, my_addr>> : r \in rnds}))

\* points[(i + 1) % len(points)][1], with 0-based indices
whose_node(key, points) ==
    LET i == bisect_right([j \in DOMAIN points |-> points[j][1]], bytes_to_float(key))
    IN  points[((i + 1) % Len(points)) + 1][2]

ShardOnJOIN(s, self, seed, rnds) ==
    LET s1 == [s EXCEPT !.my_addr = self,
                        !.addr_to_name = DictSet(@, self, NodeName[self])]
        s2 == [s1 EXCEPT !.points = shard_gen_and_add_points(@, self, rnds)]
    IN  Done(s2,
             IF seed # self
             THEN <<ShardMessage("get addrs and points", self, seed, NodeName[self], s2.points)>>
             ELSE <<>>,
             <<>>)

ShardOnGET(s, self, key) ==
    IF s.points = <<>> THEN Raise(s, "ZeroDivisionError")
    ELSE LET addr == whose_node(key, s.points)
         IN  IF addr = s.my_addr
             THEN Done(s, <<>>,
                       <<ShardLocal("GET_RESP", IF key \notin DOMAIN s.storage
                                                THEN DEFAULT_GET_RESPONSE
                                                ELSE s.storage[key])>>)
             ELSE Done([s EXCEPT !.waiting_get_keys = @ \cup {key}],
                       <<ShardMessage("get global", self, addr, <<>>, key)>>,
                       <<>>)

ShardOnPUT(s, self, key, value) ==
    IF s.points = <<>> THEN Raise(s, "ZeroDivisionError")
    ELSE LET addr == whose_node(key, s.points)
         IN  IF addr = s.my_addr
             THEN Done([s EXCEPT !.storage = MapSet(@, key, value)], <<>>,
                       <<ShardLocal("PUT_RESP", <<>>)>>)
             ELSE Done([s EXCEPT !.waiting_put_keys_values = @ \cup {<<key, value>>}],
                       <<ShardMessage("put global", self, addr, <<>>, <<key, value>>)>>,
                       <<>>)

\* self.storage.pop(key) raises KeyError when the key is not stored
ShardOnDELETE(s, self, key) ==
    IF s.points = <<>> THEN Raise(s, "ZeroDivisionError")
    ELSE LET addr == whose_node(key, s.points)
         IN  IF addr = s.my_addr
             THEN IF key \notin DOMAIN s.storage
                  THEN Raise(s, "KeyError")
                  ELSE Done([s EXCEPT !.storage = MapPop(@, key)], <<>>,
                            <<ShardLocal("DELETE_RESP", <<>>)>>)
             ELSE Done([s EXCEPT !.waiting_delete_keys = @ \cup {key}],
                       <<ShardMessage("delete global", self, addr, <<>>, key)>>,
                       <<>>)

ShardOnGetAddrsAndPoints(s, self, msg) ==
    LET s1 == [s EXCEPT !.addr_to_name = DictSet(@, msg.sender, msg.headers),
                        !.points = merge_points(@, msg.body)]
    IN  Done(s1, <<ShardMessage("addrs", self, msg.sender, s1.addr_to_name, s1.points)>>, <<>>)

ShardOnAddrs(s, self, msg) ==
    LET s1 == [s EXCEPT !.addr_to_name = msg.headers,
                        !.points = merge_points(@, msg.body)]
        to == notified(s1.addr_to_name, s1.my_addr, msg.sender)
    IN  Done(s1,
             [i \in DOMAIN to |->
                 ShardMessage("I joined", self, to[i], NodeName[self], s1.points)],
             <<>>)

ShardOnIJoined(s, self, msg) ==
    Done([s EXCEPT !.addr_to_name = DictSet(@, msg.sender, msg.headers),
                   !.points = merge_points(@, msg.body)],
         <<>>, <<>>)

ShardOnGetGlobal(s, self, msg) ==
    IF msg.body \notin DOMAIN s.storage
    THEN Done(s, <<ShardMessage("get global NOT FOUND", self, msg.sender, <<>>, <<>>)>>, <<>>)
    ELSE Done(s, <<ShardMessage("get global resp", self, msg.sender,
                                msg.body, s.storage[msg.body])>>, <<>>)

ShardOnGetGlobalNotFound(s, self, msg) ==
    Done(s, <<>>, <<ShardLocal("GET_RESP", DEFAULT_GET_RESPONSE)>>)

ShardOnGetGlobalResp(s, self, msg) ==
    IF msg.headers \in s.waiting_get_keys
    THEN Done([s EXCEPT !.waiting_get_keys = @ \ {msg.headers}], <<>>,
              <<ShardLocal("GET_RESP", msg.body)>>)
    ELSE Done(s, <<>>, <<>>)

ShardOnPutGlobal(s, self, msg) ==
    Done([s EXCEPT !.storage = MapSet(@, msg.body[1], msg.body[2])],
         <<ShardMessage("put global resp", self, msg.sender, <<>>, msg.body)>>,
         <<>>)

ShardOnPutGlobalResp(s, self, msg) ==
    IF msg.body \in s.waiting_put_keys_values
    THEN Done([s EXCEPT !.waiting_put_keys_values = @ \ {msg.body}], <<>>,
              <<ShardLocal("PUT_RESP", <<>>)>>)
    ELSE Done(s, <<>>, <<>>)

\* assert key in self.storage
ShardOnDeleteGlobal(s, self, msg) ==
    IF msg.body \notin DOMAIN s.storage
    THEN Raise(s, "AssertionError")
    ELSE Done([s EXCEPT !.storage = MapPop(@, msg.body)],
              <<ShardMessage("delete global resp", self, msg.sender, <<>>, msg.body)>>,
              <<>>)

ShardOnDeleteGlobalResp(s, self, msg) ==
    IF msg.body \in s.waiting_delete_keys
    THEN Done([s EXCEPT !.waiting_delete_keys = @ \ {msg.body}], <<>>,
              <<ShardLocal("DELETE_RESP", <<>>)>>)
    ELSE Done(s, <<>>, <<>>)

\* receive(): the branch for a node-to-node message
ShardOnMessage(s, self, msg) ==
    CASE msg.type = "get addrs and points" -> ShardOnGetAddrsAndPoints(s, self, msg)
      [] msg.type = "addrs" -> ShardOnAddrs(s, self, msg)
      [] msg.type = "I joined" -> ShardOnIJoined(s, self, msg)
      [] msg.type = "get global" -> ShardOnGetGlobal(s, self, msg)
      [] msg.type = "get global NOT FOUND" -> ShardOnGetGlobalNotFound(s, self, msg)
      [] msg.type = "get global resp" -> ShardOnGetGlobalResp(s, self, msg)
      [] msg.type = "put global" -> ShardOnPutGlobal(s, self, msg)
      [] msg.type = "put global resp" -> ShardOnPutGlobalResp(s, self, msg)
      [] msg.type = "delete global" -> ShardOnDeleteGlobal(s, self, msg)
      [] msg.type = "delete global resp" -> ShardOnDeleteGlobalResp(s, self, msg)

ShardJoined == {n \in ShardNodes : shard.node[n].my_addr # 0}

\* the floats random.random() draws from
ShardPositions == 1 .. Cardinality(ShardNodes) * MaxPoints

ShardDrawn == UNION {{p[1] : p \in Range(shard.node[n].points)} : n \in ShardNodes}

\* Node n ran a handler with outcome r on the messages `consumed`; cmds is
\* the history of the client's commands after the step.
ShardApply(n, r, consumed, cmds) ==
    /\ \E stop \in (IF r.raised = <<>> THEN {FALSE} ELSE BOOLEAN) :
          shard' = [shard EXCEPT
                       !.node[n] = r.s,
                       !.net = (@ (-) consumed) (+) SeqToBag(r.out),
                       !.client[n] = @ \o r.local,
                       !.raised[n] = @ \cup Range(r.raised),
                       !.running[n] = ~stop,
                       !.cmds = cmds]
    /\ UNCHANGED <<replication, rpc, memb, bcast>>

\* the nodes join one at a time, in the order of their addresses
ShardJOIN(n, seed, rnds) ==
    /\ n = Cardinality(ShardJoined) + 1
    /\ shard.net = EmptyBag
    /\ IF ShardJoined = {} THEN seed = n ELSE seed \in ShardJoined
    /\ Cardinality(rnds) = MaxPoints
    /\ rnds \cap ShardDrawn = {}
    /\ ShardApply(n, ShardOnJOIN(shard.node[n], n, seed, rnds), EmptyBag, shard.cmds)

\* a command may be sent: it goes to a member, once every node has joined
ShardCommand(n) ==
    /\ ShardJoined = ShardNodes
    /\ shard.running[n]
    /\ Len(shard.cmds) < MaxShardCmds

ShardGET(n, key) ==
    /\ ShardCommand(n)
    /\ ShardApply(n, ShardOnGET(shard.node[n], n, key), EmptyBag,
                  Append(shard.cmds, [type |-> "GET", node |-> n, key |-> key]))

ShardPUT(n, key, value) ==
    /\ ShardCommand(n)
    /\ ShardApply(n, ShardOnPUT(shard.node[n], n, key, value), EmptyBag,
                  Append(shard.cmds, [type |-> "PUT", node |-> n, key |-> key]))

ShardDELETE(n, key) ==
    /\ ShardCommand(n)
    /\ ShardApply(n, ShardOnDELETE(shard.node[n], n, key), EmptyBag,
                  Append(shard.cmds, [type |-> "DELETE", node |-> n, key |-> key]))

ShardRecv(m, type) ==
    /\ m \in BagToSet(shard.net)
    /\ m.type = type
    /\ shard.running[m.dst]
    /\ ShardApply(m.dst, ShardOnMessage(shard.node[m.dst], m.dst, m), SetToBag({m}), shard.cmds)

NextSharding ==
    \/ \E n \in ShardNodes, seed \in ShardNodes, rnds \in SUBSET ShardPositions :
          ShardJOIN(n, seed, rnds)
    \/ \E n \in ShardNodes, key \in ShardKeys : ShardGET(n, key)
    \/ \E n \in ShardNodes, key \in ShardKeys, value \in ShardValues : ShardPUT(n, key, value)
    \/ \E n \in ShardNodes, key \in ShardKeys : ShardDELETE(n, key)
    \/ \E m \in BagToSet(shard.net) : ShardRecv(m, "get addrs and points")
    \/ \E m \in BagToSet(shard.net) : ShardRecv(m, "addrs")
    \/ \E m \in BagToSet(shard.net) : ShardRecv(m, "I joined")
    \/ \E m \in BagToSet(shard.net) : ShardRecv(m, "get global")
    \/ \E m \in BagToSet(shard.net) : ShardRecv(m, "get global NOT FOUND")
    \/ \E m \in BagToSet(shard.net) : ShardRecv(m, "get global resp")
    \/ \E m \in BagToSet(shard.net) : ShardRecv(m, "put global")
    \/ \E m \in BagToSet(shard.net) : ShardRecv(m, "put global resp")
    \/ \E m \in BagToSet(shard.net) : ShardRecv(m, "delete global")
    \/ \E m \in BagToSet(shard.net) : ShardRecv(m, "delete global resp")

SpecSharding == Init /\ [][NextSharding]_vars

---------------------------------------------------------------------------
(* Part 3: homework/rpc/solution/server.py, the RPC server and its store.  *)
(* The body of a REQUEST, the JSON list [func, args...], is the tuple      *)
(* <<func, args...>>; a value of the store is a string.                    *)

\* json.dumps(res): the text of res, not res
json_dumps(res) == [json |-> res]

\* outcome of a call of the service: the store afterwards, and the value
\* returned (res) or the text of the exception raised (error)
Returned(data, res) == [data |-> data, ok |-> TRUE, res |-> res]
Failed(data, error) == [data |-> data, ok |-> FALSE, res |-> error]

KeyNotFound(key) == "Key " \o key \o " not found"

put(data, key, value, overwrite) ==
    IF key \notin DOMAIN data \/ overwrite
    THEN Returned(MapSet(data, key, value), TRUE)
    ELSE Returned(data, FALSE)

get(data, key) ==
    IF key \notin DOMAIN data THEN Failed(data, KeyNotFound(key))
    ELSE Returned(data, data[key])

append(data, key, value) ==
    IF key \notin DOMAIN data THEN Failed(data, KeyNotFound(key))
    ELSE Returned(MapSet(data, key, data[key] \o value), data[key] \o value)

remove(data, key) ==
    IF key \notin DOMAIN data THEN Failed(data, KeyNotFound(key))
    ELSE Returned(MapPop(data, key), data[key])

\* the try block of RpcServer.run
Dispatch(data, content) ==
    CASE content[1] = "put" -> put(data, content[2], content[3], content[4])
      [] content[1] = "get" -> get(data, content[2])
      [] content[1] = "append" -> append(data, content[2], content[3])
      [] content[1] = "remove" -> remove(data, content[2])
      [] OTHER -> Failed(data, "('Unknown func: ', '" \o content[1] \o "')")

RpcResponse(outcome) ==
    IF outcome.ok THEN [type |-> "OK", body |-> json_dumps(outcome.res)]
    ELSE [type |-> "ERROR", body |-> outcome.res]

\* one iteration of the loop of RpcServer.run on the message msg: the
\* stored response is sent for a known identifier, and the request is
\* carried out in either case
run(s, msg) ==
    IF msg.type # "REQUEST" THEN s
    ELSE LET s1 == IF msg.headers \in DOMAIN s.id_to_msg_response
                   THEN [s EXCEPT !.sent =
                            Append(@, [to |-> msg.sender, id |-> msg.headers,
                                       msg |-> s.id_to_msg_response[msg.headers]])]
                   ELSE s
             outcome == Dispatch(s1.data, msg.body)
             m == RpcResponse(outcome)
         IN  [s1 EXCEPT !.data = outcome.data,
                        !.calls = @ + 1,
                        !.id_to_msg_response = MapSet(@, msg.headers, m),
                        !.sent = Append(@, [to |-> msg.sender, id |-> msg.headers, msg |-> m])]

RpcKeys == {"k"}
RpcValues == {"a"}

\* the calls the client makes
RpcCalls ==
    {<<"put", k, v, o>> : k \in RpcKeys, v \in RpcValues, o \in BOOLEAN}
    \cup {<<"append", k, v>> : k \in RpcKeys, v \in RpcValues}
    \cup {<<f, k>> : f \in {"get", "remove"}, k \in RpcKeys}
    \cup {<<"flush">>}

RpcClient == 1

\* the client sends the call content under the identifier id: a new
\* identifier, or once more the call it sent under id before (a retry)
RpcRequest(id, content) ==
    /\ BagCardinality(rpc.net) + rpc.calls < MaxRpcSends
    /\ id \in DOMAIN rpc.issued => rpc.issued[id] = content
    /\ id \notin DOMAIN rpc.issued => id = Cardinality(DOMAIN rpc.issued) + 1
    /\ rpc' = [rpc EXCEPT
                  !.net = @ (+) SetToBag({[type |-> "REQUEST", headers |-> id,
                                           body |-> content, sender |-> RpcClient]}),
                  !.issued = MapSet(@, id, content)]
    /\ UNCHANGED <<replication, shard, memb, bcast>>

\* a message that is no REQUEST reaches the server
RpcOther ==
    /\ rpc.net = EmptyBag /\ rpc.calls = 0
    /\ rpc' = [rpc EXCEPT
                  !.net = @ (+) SetToBag({[type |-> "PING", headers |-> 0,
                                           body |-> <<>>, sender |-> RpcClient]})]
    /\ UNCHANGED <<replication, shard, memb, bcast>>

\* self._comm.recv() returns msg, and the loop body runs on it
RpcRecv(msg) ==
    /\ msg \in BagToSet(rpc.net)
    /\ rpc' = [run(rpc, msg) EXCEPT !.net = rpc.net (-) SetToBag({msg})]
    /\ UNCHANGED <<replication, shard, memb, bcast>>

NextRpc ==
    \/ \E id \in 1 .. MaxRpcIds, content \in RpcCalls : RpcRequest(id, content)
    \/ RpcOther
    \/ \E msg \in BagToSet(rpc.net) : RpcRecv(msg)

SpecRpc == Init /\ [][NextRpc]_vars

---------------------------------------------------------------------------
(* Part 4: homework/membership/solution/node.py, the gossip membership     *)
(* node.  mem_list and addr_to_name are dicts in insertion order; an entry *)
(* of mem_list is <<counter, when_we_last_updated, name>>.  A handler      *)
(* returns the node's fields, the messages sent, the timer afterwards and  *)
(* the exception that escaped.                                             *)

DictPop(d, k) == SelectSeq(d, LAMBDA kv : kv[1] # k)

MembMessage(type, s, self, dst, body) ==
    [type |-> type, sender |-> self, dst |-> dst,
     headers |-> [name |-> NodeName[self], counter |-> s.counter], body |-> body]

MembDone(s, out, timer) == [s |-> s, out |-> out, timer |-> timer, raised |-> <<>>]
MembRaise(s, timer, exception) ==
    [s |-> s, out |-> <<>>, timer |-> timer, raised |-> <<exception>>]

on_leave(s) == [s EXCEPT !.mem_list = <<>>, !.addr_to_name = <<>>]

\* send_msg: the messages it sends
send_msg(s, self, type, body, recipient_addr, multicast) ==
    LET recipients == IF multicast THEN DictKeyList(s.mem_list) ELSE <<recipient_addr>>
        to == SelectSeq(recipients, LAMBDA addr : addr # self)
    IN  [i \in DOMAIN to |-> MembMessage(type, s, self, to[i], body)]

\* the loop of merge_mem_list_into_us from item i of the received list on
RECURSIVE merge_loop(_, _, _, _)
merge_loop(s, mem_list, i, now) ==
    IF i > Len(mem_list) THEN s
    ELSE LET addr == mem_list[i][1]
             tail == mem_list[i][2]
             s1 == IF ~DictHas(s.mem_list, addr)
                   THEN [s EXCEPT !.mem_list = DictSet(@, addr, tail),
                                  !.addr_to_name = DictSet(@, addr, tail[3])]
                   ELSE IF tail[1] > DictGet(s.mem_list, addr)[1]
                   THEN [s EXCEPT !.mem_list =
                            DictSet(@, addr, [DictGet(@, addr) EXCEPT ![1] = tail[1]])]
                   ELSE s
         IN  merge_loop([s1 EXCEPT !.mem_list =
                            DictSet(@, addr, [DictGet(@, addr) EXCEPT ![2] = now])],
                        mem_list, i + 1, now)

merge_mem_list_into_us(s, mem_list, now) == merge_loop(s, mem_list, 1, now)

\* send_gossip with random.choice returning random_addr
send_gossip(s, self, random_addr) ==
    IF Len(s.mem_list) <= 1 THEN MembDone(s, <<>>, FALSE)
    ELSE LET s1 == [s EXCEPT !.counter = @ + 1]
         IN  IF ~DictHas(s1.mem_list, self) THEN MembRaise(s1, FALSE, "KeyError")
             ELSE LET s2 == [s1 EXCEPT !.mem_list =
                                DictSet(@, self, [DictGet(@, self) EXCEPT ![2] = s1.counter])]
                  IN  MembDone(s2, send_msg(s2, self, "gossip", s2.mem_list, random_addr, FALSE),
                               TRUE)

MembOnJOIN(s, self, seed, timer, now) ==
    LET s1 == [s EXCEPT !.addr_to_name = DictSet(@, self, NodeName[self]),
                        !.mem_list = DictSet(@, self, <<s.counter, now, NodeName[self]>>)]
    IN  MembDone(s1, send_msg(s1, self, "join", <<>>, seed, FALSE), timer)

\* on_leave() runs before send_msg reads self.mem_list
MembOnLEAVE(s, self, timer) ==
    LET s1 == on_leave(s)
    IN  MembDone(s1, send_msg(s1, self, "leave", <<>>, 0, TRUE), FALSE)

MembOnJoin(s, self, msg, timer, now) ==
    LET s1 == [s EXCEPT !.addr_to_name = DictSet(@, msg.sender, msg.headers.name),
                        !.mem_list = DictSet(@, msg.sender,
                                             <<msg.headers.counter, now, msg.headers.name>>)]
    IN  MembDone(s1, send_msg(s1, self, "join-response", s1.mem_list, msg.sender, FALSE), timer)

MembOnJoinResponse(s, self, msg, timer, now) ==
    MembDone(merge_mem_list_into_us(s, msg.body, now), <<>>, TRUE)

MembOnLeave(s, self, msg, timer, now) ==
    MembDone([s EXCEPT !.addr_to_name = DictPop(@, msg.sender),
                       !.mem_list = DictPop(@, msg.sender)],
             <<>>, timer)

MembOnGossip(s, self, msg, timer, now) ==
    MembDone(merge_mem_list_into_us(s, msg.body, now), <<>>, timer)

MembOnMessage(s, self, msg, timer, now) ==
    CASE msg.type = "join" -> MembOnJoin(s, self, msg, timer, now)
      [] msg.type = "join-response" -> MembOnJoinResponse(s, self, msg, timer, now)
      [] msg.type = "leave" -> MembOnLeave(s, self, msg, timer, now)
      [] msg.type = "gossip" -> MembOnGossip(s, self, msg, timer, now)

\* the nodes that have handled JOIN and no LEAVE since
MembJoined == {n \in MembNodes : DictHas(memb.node[n].addr_to_name, n)}

MembApply(n, r, consumed, log) ==
    /\ memb' = [memb EXCEPT
                   !.node[n] = r.s,
                   !.net = (@ (-) consumed) (+) SeqToBag(r.out),
                   !.timer[n] = r.timer,
                   !.raised[n] = @ \cup Range(r.raised),
                   !.gossips = IF consumed = EmptyBag /\ log = memb.log THEN @ + 1 ELSE @,
                   !.log = log]
    /\ UNCHANGED <<replication, shard, rpc, bcast>>

\* the nodes join in the order of their addresses, each with a member as
\* seed (itself for the first)
MembJOIN(n, seed) ==
    /\ Len(memb.log) < MaxMembCmds
    /\ n \notin MembJoined
    /\ \A i \in DOMAIN memb.log : memb.log[i].node # n
    /\ n = Cardinality({memb.log[i].node : i \in DOMAIN memb.log}) + 1
    /\ IF MembJoined = {} THEN seed = n ELSE seed \in MembJoined
    /\ MembApply(n, MembOnJOIN(memb.node[n], n, seed, memb.timer[n], memb.now), EmptyBag,
                 Append(memb.log, [type |-> "JOIN", node |-> n]))

MembLEAVE(n) ==
    /\ Len(memb.log) < MaxMembCmds
    /\ n \in MembJoined
    /\ MembApply(n, MembOnLEAVE(memb.node[n], n, memb.timer[n]), EmptyBag,
                 Append(memb.log, [type |-> "LEAVE", node |-> n]))

MembRecv(m, type) ==
    /\ m \in BagToSet(memb.net)
    /\ m.type = type
    /\ MembApply(m.dst, MembOnMessage(memb.node[m.dst], m.dst, m, memb.timer[m.dst], memb.now),
                 SetToBag({m}), memb.log)

\* on_timer('gossip'): the timer of n fires
MembOnTimer(n, random_addr) ==
    /\ memb.timer[n]
    /\ memb.gossips < MaxGossips
    /\ Len(memb.node[n].mem_list) > 1 =>
          random_addr \in DictKeys(memb.node[n].mem_list) \ {n}
    /\ Len(memb.node[n].mem_list) <= 1 => random_addr = n
    /\ MembApply(n, send_gossip(memb.node[n], n, random_addr), EmptyBag, memb.log)

\* time passes
MembTick ==
    /\ memb.now < MaxTime
    /\ memb' = [memb EXCEPT !.now = @ + 1]
    /\ UNCHANGED <<replication, shard, rpc, bcast>>

\* no step receives a 'leave' message: none is ever sent (MembOnLEAVE)
NextMembership ==
    \/ \E n \in MembNodes, seed \in MembNodes : MembJOIN(n, seed)
    \/ \E n \in MembNodes : MembLEAVE(n)
    \/ \E m \in BagToSet(memb.net) : MembRecv(m, "join")
    \/ \E m \in BagToSet(memb.net) : MembRecv(m, "join-response")
    \/ \E m \in BagToSet(memb.net) : MembRecv(m, "gossip")
    \/ \E n \in MembNodes, random_addr \in MembNodes : MembOnTimer(n, random_addr)
    \/ MembTick

SpecMembership == Init /\ [][NextMembership]_vars

---------------------------------------------------------------------------
(* Part 5: homework/broadcast/solution/peer.py, the broadcast peer.  A     *)
(* message is its type, body and headers (the JSON text of from, msg_id    *)
(* and vector); two copies of a broadcast message are equal, whoever       *)
(* relayed them.  A step of Peer.run returns the peer's fields, the        *)
(* messages sent and the messages handed to deliver_local.                 *)

json_loads(text) == text.json

BcastBody == "hi"

deliver_local(msg) ==
    [type |-> "DELIVER", body |-> <<json_loads(msg.headers).from, ": ", msg.body>>]

\* a message is delivered in its sender's order only: the vector is not read
is_satisfied_in_sender_order(s, msg) ==
    json_loads(msg.headers).msg_id = s.user_to_num_delivered[json_loads(msg.headers).from]

is_satisfied(s, msg) ==
    LET headers == json_loads(msg.headers)
        user == headers.from
        msg_id == headers.msg_id
        vector == headers.vector
    IN  /\ msg_id = s.user_to_num_delivered[user]
        /\ \A u \in DOMAIN vector : ~(s.user_to_num_delivered[u] < vector[u])

\* the users of user_to_num_delivered, in the order of the dict, whose next
\* message is stored and satisfied
DeliverableAt(s) ==
    {i \in DOMAIN PEER_NAMES :
        LET user == PEER_NAMES[i]
            next_id == s.user_to_num_delivered[user]
        IN  /\ next_id \in DOMAIN s.user_to_id_to_msg[user]
            /\ is_satisfied(s, s.user_to_id_to_msg[user][next_id])}

\* the while True loop of run (lines 78-87): r.s the peer, r.msgs the
\* messages delivered so far
RECURSIVE deliver_loop(_)
deliver_loop(r) ==
    IF DeliverableAt(r.s) = {} THEN r
    ELSE LET i == CHOOSE i \in DeliverableAt(r.s) : \A j \in DeliverableAt(r.s) : i <= j
             user == PEER_NAMES[i]
             msg == r.s.user_to_id_to_msg[user][r.s.user_to_num_delivered[user]]
         IN  deliver_loop([s |-> [r.s EXCEPT !.user_to_num_delivered[user] = @ + 1],
                           msgs |-> Append(r.msgs, msg)])

\* SEND from the local user
BcastOnSEND(s, name, peers, body) ==
    LET bcast_msg == [type |-> "BCAST", body |-> body,
                      headers |-> json_dumps([from |-> name,
                                              msg_id |-> s.num_msg_sent,
                                              vector |-> s.user_to_num_delivered])]
    IN  [s |-> [s EXCEPT !.num_msg_sent = @ + 1],
         out |-> [i \in DOMAIN peers |-> [msg |-> bcast_msg, dst |-> peers[i]]],
         msgs |-> <<>>]

\* a BCAST message received
BcastOnBCAST(s, name, peers, msg) ==
    LET headers == json_loads(msg.headers)
        user == headers.from
        msg_id == headers.msg_id
        first == msg \notin DOMAIN s.received_cnt
        relays == IF first /\ user # name
                  THEN [i \in DOMAIN peers |-> [msg |-> msg, dst |-> peers[i]]]
                  ELSE <<>>
        cnt0 == IF ~first THEN s.received_cnt[msg]
                ELSE IF user = name THEN 0 - 1 ELSE 0
        s1 == [s EXCEPT !.received_cnt = MapSet(@, msg, cnt0 + 1)]
    IN  IF s1.received_cnt[msg] = Len(peers) \div 2
        THEN LET s2 == [s1 EXCEPT !.user_to_id_to_msg[user] = MapSet(@, msg_id, msg)]
                 r == deliver_loop([s |-> s2, msgs |-> <<>>])
             IN  [s |-> r.s, out |-> relays, msgs |-> r.msgs]
        ELSE [s |-> s1, out |-> relays, msgs |-> <<>>]

\* the messages stored at a peer and not delivered
BcastStored(s) ==
    UNION {{s.user_to_id_to_msg[user][id] :
                id \in {i \in DOMAIN s.user_to_id_to_msg[user] :
                            i >= s.user_to_num_delivered[user]}} :
           user \in Range(PEER_NAMES)}

BcastApply(p, r, consumed, before) ==
    /\ bcast' = [bcast EXCEPT
                    !.peer[p] = r.s,
                    !.net = (@ (-) consumed) (+) SeqToBag(r.out),
                    !.local[p] = @ \o [i \in DOMAIN r.msgs |-> deliver_local(r.msgs[i])],
                    !.delivered[p] = @ \o r.msgs,
                    !.before = before,
                    !.held = @ \cup {<<p, m>> : m \in BcastStored(r.s) \ BcastStored(bcast.peer[p])},
                    !.sends = IF consumed = EmptyBag THEN @ + 1 ELSE @]
    /\ UNCHANGED <<replication, shard, rpc, memb>>

BcastSEND(p) ==
    /\ bcast.sends < MaxSends
    /\ LET r == BcastOnSEND(bcast.peer[p], p, BcastPeers, BcastBody)
       IN  BcastApply(p, r, EmptyBag,
                      MapSet(bcast.before, r.out[1].msg, Range(bcast.delivered[p])))

BcastRecv(m) ==
    /\ m \in BagToSet(bcast.net)
    /\ BcastApply(m.dst, BcastOnBCAST(bcast.peer[m.dst], m.dst, BcastPeers, m.msg),
                  SetToBag({m}), bcast.before)

NextBroadcast ==
    \/ \E p \in Range(BcastPeers) : BcastSEND(p)
    \/ \E m \in BagToSet(bcast.net) : BcastRecv(m)

SpecBroadcast == Init /\ [][NextBroadcast]_vars

---------------------------------------------------------------------------
(* Properties.                                                             *)

\* a GET or PUT pair of quorums that intersect in every replica set
Intersecting(w, r) == w + r > NUM_REPLICAS

QuorumReached(v) == ~QuorumDone(hist, v) /\ QuorumDone(hist', v)

\* C2 (Spec): write completion.  When the coordinator receives the
\* writeQuorum-th acknowledgement of a PUT, it sends the entry node the
\* clock stamped on that PUT's value ('put for coordinator resp'), which
\* the entry node relays as the PUT_RESP.
C2_WriteCompletion ==
    [][\A v \in DOMAIN hist.puts :
          QuorumReached(v) =>
              \E m \in BagToSet(net') :
                  /\ m.type = "put for coordinator resp"
                  /\ m.dst = hist.puts[v].entry
                  /\ <<m.metadata[1]>> = hist.puts[v].stamped]_vars

\* a GET, or the coordinator's part of a PUT, is admitted in this step
AdmitsGet == Len(hist'.gets) > Len(hist.gets)
AdmitsPut == \E v \in DOMAIN hist.puts : hist.puts[v].stamped = <<>> /\ hist'.puts[v].stamped # <<>>

\* C3 (SpecConcurrent): independent concurrent requests on one key.
\* Admitting a request never resets, overwrites or consumes the pending
\* bookkeeping of a request admitted before it: the replies collected and
\* the quorum of every pending GET, and the acknowledgement count and
\* entry node of every pending PUT, are what they were.
C3_OwnPendingEntry ==
    [][/\ AdmitsGet =>
            \A n \in Nodes : \A k \in DOMAIN node[n].waiting_get_keys :
                /\ k \in DOMAIN node'[n].waiting_get_keys
                /\ node'[n].waiting_get_keys[k] = node[n].waiting_get_keys[k]
                /\ node'[n].waiting_get_keys_quorum[k] = node[n].waiting_get_keys_quorum[k]
       /\ AdmitsPut =>
            \A n \in Nodes : \A k \in DOMAIN node[n].waiting_put :
                /\ k \in DOMAIN node'[n].waiting_put
                /\ node'[n].waiting_put[k] = node[n].waiting_put[k]
                /\ node'[n].waiting_put_addr[k] = node[n].waiting_put_addr[k]]_vars

\* C5 (SpecConcurrent): absence handling.  Once every message is
\* delivered, every GET on a key that was never written has been answered
\* with a GET_RESP whose values and metadata are empty: it is not left
\* unanswered, and no ERROR is delivered.
C5_AbsentKeyAnswered ==
    net = EmptyBag =>
        /\ \A i \in DOMAIN hist.gets :
              hist.gets[i].unwritten =>
                  /\ hist.gets[i].resp # <<>>
                  /\ hist.gets[i].resp[1].type = "GET_RESP"
                  /\ hist.gets[i].resp[1].values = <<>>
                  /\ hist.gets[i].resp[1].metadata = <<>>
        /\ \A n \in Nodes : \A j \in DOMAIN client[n] : client[n][j].type # "ERROR"

\* C6 (Spec): shape of a GET answer.  Every GET_RESP carries at most one
\* value, values and metadata have the same length, the readQuorum replies
\* were collected for it, it is empty exactly when all of them were
\* absence markers, and otherwise its value and metadata are the value and
\* clock of one of the collected replies.
C6_AnswerShape ==
    \A i \in DOMAIN hist.gets :
        LET g == hist.gets[i]
            values == g.resp[1].values
            metadata == g.resp[1].metadata
        IN  g.resp # <<>> =>
                /\ Len(values) <= 1
                /\ Len(values) = Len(metadata)
                /\ Len(g.collected) = g.quorum
                /\ values = <<>> <=> \A j \in DOMAIN g.collected : g.collected[j] = <<>>
                /\ values # <<>> =>
                      \E j \in DOMAIN g.collected :
                          g.collected[j] = <<<<metadata[1], values[1]>>>>

\* a GET was answered with a value after collecting two different versions
C6_Witness ==
    \E i \in DOMAIN hist.gets :
        /\ hist.gets[i].resp # <<>>
        /\ hist.gets[i].resp[1].values # <<>>
        /\ \E j, k \in DOMAIN hist.gets[i].collected :
              /\ hist.gets[i].collected[j] # <<>>
              /\ hist.gets[i].collected[k] # <<>>
              /\ hist.gets[i].collected[j] # hist.gets[i].collected[k]

\* what node n answers to GET_MEMBERS and to LOOKUP(key) in this state
Members(n) == OnGET_MEMBERS(node[n]).local
Replicas(n, key) == OnLOOKUP(node[n], key)

\* C4 (SpecSettled): join convergence.  When the nodes have joined one at
\* a time and no join message is in flight, all the members report the
\* same GET_MEMBERS list and, for every key, the same LOOKUP result.
C4_JoinConvergence ==
    (hist.settled /\ net = EmptyBag) =>
        \A n1, n2 \in Joined :
            /\ Members(n1) = Members(n2)
            /\ \A key \in Keys :
                  /\ Replicas(n1, key).raised = <<>>
                  /\ Replicas(n1, key).local = Replicas(n2, key).local

\* A, B and C have joined and settled, D has joined with seed A, the join
\* has settled and D has answered a query
C4_Witness ==
    /\ hist.settled /\ net = EmptyBag
    /\ Joined = {1, 2, 3, 4}
    /\ DictKeyList(node[4].addr_to_name) = <<1, 2, 3, 4>>
    /\ client[4] # <<>>

\* the owners of the points of a node's ring
Owners(points) == {p[2] : p \in Range(points)}

\* C7 (SpecJoin): LOOKUP never faults on a joined node.  In every state,
\* every address that owns a point of a node's ring has a name in that
\* node's directory, and LOOKUP(key) answers a LOOKUP_RESP with the
\* [name, address] pair of each of the up to 3 replicas in ring order.
C7_LookupNeverFaults ==
    \A n \in Joined :
        /\ \A addr \in Owners(node[n].points) : DictHas(node[n].addr_to_name, addr)
        /\ \A key \in Keys :
              LET addrs == Take(get_replicas_addrs(key, node[n].points), NUM_REPLICAS)
              IN  /\ Replicas(n, key).raised = <<>>
                  /\ Replicas(n, key).local[1].type = "LOOKUP_RESP"
                  /\ Replicas(n, key).local[1].pairs =
                        [i \in DOMAIN addrs |->
                            <<DictGet(node[n].addr_to_name, addrs[i]), addrs[i]>>]

NoDuplicates(seq) == \A i, j \in DOMAIN seq : i # j => seq[i] # seq[j]

\* C8 (SpecJoin): replica list determinism and distinctness.  Nodes that
\* hold the same point set compute the same replica list for a key; the
\* list has NUM_REPLICAS pairwise distinct addresses when the ring has
\* at least NUM_REPLICAS distinct owners, also when a node owns more than
\* one point, and with fewer owners it is shorter and duplicate-free.
C8_DistinctReplicas ==
    \A n \in Nodes : \A key \in Keys :
        LET addrs == Take(get_replicas_addrs(key, node[n].points), NUM_REPLICAS)
            owners == Owners(node[n].points)
        IN  /\ NoDuplicates(addrs)
            /\ Len(addrs) = Min(NUM_REPLICAS, Cardinality(owners))
            /\ \A n2 \in Nodes :
                  Range(node[n2].points) = Range(node[n].points) =>
                      Take(get_replicas_addrs(key, node[n2].points), NUM_REPLICAS) = addrs

\* a is before b: pointwise at most b, and less at some address
Before(a, b) ==
    /\ \A addr \in DictKeys(a) : DictGet(a, addr) <= DictGet(b, addr)
    /\ \E addr \in DictKeys(a) : DictGet(a, addr) < DictGet(b, addr)

\* C9 (SpecClocks): comparison is pointwise dominance.  For clocks a, b
\* over the same address set, cmp_vector_clocks(a, b) is -1 exactly when
\* a[addr] <= b[addr] for every address and a[addr] < b[addr] for one,
\* and 0 exactly when a[addr] = b[addr] for every address.
C9_PointwiseDominance ==
    calc.cmp # <<>> =>
        LET a == calc.vcs[1]
            b == calc.vcs[2]
        IN  /\ calc.cmp[1] = -1 <=> Before(a, b)
            /\ calc.cmp[1] = 0 <=> DictEq(a, b)

\* C10 (SpecClocks): conflict resolution picks the dominant version.  For
\* a non-empty list of clocks over the same address set in which one clock
\* is after all the others, get_max_vector_clock returns that clock, in
\* every order of the list.
C10_MaxIsDominant ==
    calc.max # <<>> =>
        \A i \in DOMAIN calc.vcs :
            (\A j \in DOMAIN calc.vcs : j # i => Before(calc.vcs[j], calc.vcs[i]))
                => DictEq(calc.max[1], calc.vcs[i])

\* C11 (SpecClocks): partial-order laws of the comparison.  For clocks A,
\* B, C over a fixed address set, cmp_vector_clocks(A, A) is 0 (EQUAL), A
\* BEFORE B (-1) implies not B BEFORE A, and A BEFORE B with B BEFORE C
\* implies A BEFORE C.
C11_PartialOrderLaws ==
    calc.cmps # <<>> =>
        \A i, j, k \in DOMAIN calc.vcs :
            /\ calc.cmps[i][i] = 0
            /\ calc.cmps[i][j] = -1 => calc.cmps[j][i] # -1
            /\ (calc.cmps[i][j] = -1 /\ calc.cmps[j][k] = -1) => calc.cmps[i][k] = -1

\* three clocks, no two of them equal, were compared pairwise and the
\* comparison told the first from the second
C11_Witness ==
    /\ calc.cmps # <<>>
    /\ Len(calc.vcs) = 3
    /\ \A i, j \in DOMAIN calc.vcs : i # j => ~DictEq(calc.vcs[i], calc.vcs[j])
    /\ calc.cmps[1][2] # 0

\* the comparison of two clocks over the same address set never reports
\* BEFORE: the lists it compares are two orders of the same addresses
NeverBefore ==
    calc.cmps # <<>> => \A i, j \in DOMAIN calc.vcs : calc.cmps[i][j] # -1

\* the counter of a clock at an address (0 when the clock has none)
At(vc, addr) == IF DictHas(vc, addr) THEN DictGet(vc, addr) ELSE 0

\* m is the pointwise maximum of a and b
PointwiseMax(m, a, b) ==
    /\ DictKeys(m) = DictKeys(a) \cup DictKeys(b)
    /\ \A addr \in DictKeys(m) : DictGet(m, addr) = Max(At(a, addr), At(b, addr))

\* the merge laws for the clocks a and b a call was made with
MergeLaws(m) ==
    /\ ~m.ab.raised /\ ~m.ba.raised /\ ~m.aab.raised
    /\ PointwiseMax(m.ab.vc, m.a, m.b)
    /\ DictEq(m.aab.vc, m.ab.vc)
    /\ DictEq(m.ab.vc, m.ba.vc)

\* C12 (SpecClocks): merge laws.  update_my_vector_clock merges a remote
\* clock into the local one as the pointwise maximum per address, and for
\* all clocks A, B: merge(A, merge(A, B)) = merge(A, B) and
\* merge(A, B) = merge(B, A).
C12_MergeLaws ==
    calc.merge # <<>> => MergeLaws(calc.merge[1])

\* the merge laws hold for clocks over one and the same address set
MergeLawsOnOneAddressSet ==
    (calc.merge # <<>> /\ DictKeys(calc.merge[1].a) = DictKeys(calc.merge[1].b))
        => MergeLaws(calc.merge[1])

\* a message of an unknown type that this step takes out of the network
Consumed(m) ==
    /\ m \in InFlight
    /\ m.type \notin KnownMessages
    /\ CopiesIn(m, net') < CopiesIn(m, net)

\* the ERROR a node sends back for the message m
ErrorFor(m) ==
    [Message("ERROR", m.dst, m.sender) EXCEPT !.text = "unknown message: " \o m.type]

\* this step delivers an ERROR to the client of node n
ErrorDelivered(n) ==
    /\ Len(client'[n]) > Len(client[n])
    /\ client'[n][Len(client'[n])].type = "ERROR"

\* C13 (SpecErrors): unrecognized types are answered, not dropped.  A
\* command of an unknown type produces exactly one ERROR to the local
\* client naming the command, a node-to-node message of an unknown type
\* produces exactly one ERROR to its sender, and in both cases no node
\* state changes.
C13_UnknownAnswered ==
    [][/\ hist'.queries > hist.queries =>
            \E n \in Nodes :
                /\ ErrorDelivered(n)
                /\ client' = [client EXCEPT ![n] = Append(@, client'[n][Len(client'[n])])]
                /\ \E type \in UnknownCommands :
                      client'[n][Len(client'[n])].text = "unknown command: " \o type
                /\ node' = node /\ net' = net
       /\ \A m \in InFlight :
            Consumed(m) =>
                /\ net' = (net (-) SetToBag({m})) (+) SetToBag({ErrorFor(m)})
                /\ node' = node /\ client' = client]_vars

\* an unknown command and an unknown message have both been answered
C13_Witness ==
    /\ \E n \in Joined : \E i \in DOMAIN client[n] :
          client[n][i].text = "unknown command: DELETE"
    /\ \E m \in InFlight :
          /\ m.type = "ERROR" /\ m.text = "unknown message: ping"
          /\ m.sender \in Joined

\* this step takes the message m out of the network
Delivered(m) == m \in InFlight /\ CopiesIn(m, net') < CopiesIn(m, net)

\* the clock c stamps a write handled by node self whose clock was old,
\* with prior metadata (<<>>: none): the pointwise maximum of old and the
\* metadata, and the entry of self one more
Stamps(c, old, metadata, self) ==
    LET prior == IF metadata = <<>> THEN <<>> ELSE metadata[1]
    IN  /\ DictKeys(c) = DictKeys(old) \cup DictKeys(prior) \cup {self}
        /\ \A addr \in DictKeys(c) :
              DictGet(c, addr) =
                  Max(At(old, addr), At(prior, addr)) + (IF addr = self THEN 1 ELSE 0)

\* C14 (Spec): stamping of a write.  When a node handles 'put for
\* coordinator', the clock stamped on the new value is the pointwise
\* maximum of the node's previous clock and the prior metadata (if any)
\* with the node's own entry increased by exactly one, on every node that
\* can be coordinator, the first node of the cluster included; the value
\* is fanned out with that clock.
C14_Stamping ==
    [][\A m \in InFlight :
          (m.type = "put for coordinator" /\ Delivered(m)) =>
              /\ Stamps(node'[m.dst].vector_clock, node[m.dst].vector_clock,
                        m.metadata, m.dst)
              /\ hist'.puts[m.value].stamped = <<node'[m.dst].vector_clock>>
              /\ \E g \in BagToSet(net') :
                    /\ g.type = "put global" /\ g.value = m.value
                    /\ g.vv = <<<<node'[m.dst].vector_clock, m.value>>>>]_vars

\* the stamping is right on the nodes that joined through a seed
C14_OnLaterNodes ==
    [][\A m \in InFlight :
          (m.type = "put for coordinator" /\ Delivered(m) /\ m.dst # 1) =>
              /\ Stamps(node'[m.dst].vector_clock, node[m.dst].vector_clock,
                        m.metadata, m.dst)
              /\ hist'.puts[m.value].stamped = <<node'[m.dst].vector_clock>>]_vars

\* C15 (Spec): late fetch replies are ignored.  Once a GET has collected
\* readQuorum replies and answered, a further fetch reply that belongs to
\* it (every copy of it in flight does) changes no state and triggers no
\* client response when it is delivered: it is not counted toward the
\* quorum of a later GET on the same key.
C15_LateRepliesIgnored ==
    [][\A m \in InFlight :
          (m.type = "get global resp" /\ Late(m) /\ Delivered(m)) =>
              node' = node /\ client' = client]_vars

\* a late fetch reply is delivered while no GET is pending on its key
C15_NoPendingCase ==
    [][\A m \in InFlight :
          (/\ m.type = "get global resp" /\ Late(m) /\ Delivered(m)
           /\ m.key \notin DOMAIN node[m.dst].waiting_get_keys) =>
              node' = node /\ client' = client]_vars

\* C16 (Spec): late write acknowledgements are ignored.  Once a PUT has
\* collected writeQuorum acknowledgements, a further acknowledgement of
\* that PUT changes no state and sends nothing when it is delivered: it is
\* not counted toward a later PUT on the same key, and the quorum it
\* carries is not applied to one.
C16_LateAcksIgnored ==
    [][\A m \in InFlight :
          (m.type = "put global resp" /\ QuorumDone(hist, m.value) /\ Delivered(m)) =>
              /\ node' = node /\ client' = client
              /\ net' = net (-) SetToBag({m})]_vars

\* no node holds a pending entry of a GET, or of a PUT, on the key
NoPendingGet(nodes, key) ==
    \A n \in Nodes :
        /\ key \notin DOMAIN nodes[n].waiting_get_keys
        /\ key \notin DOMAIN nodes[n].waiting_get_keys_quorum
NoPendingPut(nodes, key) ==
    \A n \in Nodes :
        /\ key \notin DOMAIN nodes[n].waiting_put
        /\ key \notin DOMAIN nodes[n].waiting_put_addr

\* C17 (Spec): pending entries are removed at quorum.  In the step in
\* which a GET collects its readQuorum-th reply its entries in
\* waiting_get_keys and waiting_get_keys_quorum are removed, in the step
\* in which a PUT collects its writeQuorum-th acknowledgement its entries
\* in waiting_put and waiting_put_addr are removed, and in every state
\* where all admitted requests have completed the four tables are empty.
C17_PendingRemoved ==
    /\ [][/\ \A i \in DOMAIN hist.gets :
               (hist.gets[i].resp = <<>> /\ hist'.gets[i].resp # <<>>)
                   => NoPendingGet(node', hist.gets[i].key)
          /\ \A v \in DOMAIN hist.puts :
               QuorumReached(v) => NoPendingPut(node', hist.puts[v].key)]_vars
    /\ [](Idle => \A key \in Keys : NoPendingGet(node, key) /\ NoPendingPut(node, key))

\* the part of C17 on GETs
C17_GetsRemoved ==
    /\ [][\A i \in DOMAIN hist.gets :
               (hist.gets[i].resp = <<>> /\ hist'.gets[i].resp # <<>>)
                   => NoPendingGet(node', hist.gets[i].key)]_vars
    /\ [](Idle => \A key \in Keys : NoPendingGet(node, key))

\* C18 (SpecWrites): unconditional replica write.  When a replica
\* handles 'put global' for key k with versioned value v, afterwards
\* storage[k] = v whatever was stored before, every other key and all other
\* node state are unchanged, and exactly one acknowledgement is sent to the
\* sender of the write.
C18_UnconditionalWrite ==
    [][\A m \in InFlight :
          (m.type = "put global" /\ Delivered(m)) =>
              LET n == m.dst
                  ack == [m EXCEPT !.type = "put global resp", !.sender = n,
                                   !.dst = m.sender]
              IN  /\ DOMAIN node'[n].storage = DOMAIN node[n].storage \cup {m.key}
                  /\ node'[n].storage[m.key] = m.vv[1]
                  /\ \A k \in DOMAIN node[n].storage \ {m.key} :
                        node'[n].storage[k] = node[n].storage[k]
                  /\ [node'[n] EXCEPT !.storage = node[n].storage] = node[n]
                  /\ \A o \in Nodes \ {n} : node'[o] = node[o]
                  /\ client' = client
                  /\ net' = (net (-) SetToBag({m})) (+) SetToBag({ack})]_vars

\* a replica has acknowledged the second PUT on a key and now stores the
\* first one, whose clock is older: the delayed write replaced the newer
C18_Witness ==
    \E n \in Nodes : \E k \in DOMAIN node[n].storage :
        /\ \E m \in InFlight :
              /\ m.type = "put global resp" /\ m.sender = n /\ m.key = k
              /\ m.value > node[n].storage[k][2]
              /\ Before(node[n].storage[k][1], m.vv[1][1])

\* a replica that writes one key keeps the value it holds for another
C18_OtherKeyKept ==
    \E n \in Nodes : Cardinality(DOMAIN node[n].storage) > 1

\* the addresses of the clocks of the values node n holds
StoredAddrs(n) ==
    UNION {DictKeys(node[n].storage[k][1]) : k \in DOMAIN node[n].storage}

\* C19 (SpecJoining): known members in stored clocks.  In every reachable
\* state and on every node, every address that appears in the vector clock
\* of a value held in that node's storage is a key of that node's membership
\* directory, also while join notifications of other nodes are in flight.
C19_StoredClocksKnown ==
    \A n \in Nodes : StoredAddrs(n) \subseteq DictKeys(node[n].addr_to_name)

\* node n has its seed's answer: no message of its own join is in flight
JoinAnswered(n) ==
    /\ n \in Joined
    /\ \A m \in InFlight : /\ ~(m.type = "get addrs and points" /\ m.sender = n)
                           /\ ~(m.type = "addrs" /\ m.dst = n)

\* the same on the nodes whose own join is answered, where only the
\* notifications of other nodes are in flight
C19_OnAnsweredNodes ==
    \A n \in Nodes :
        JoinAnswered(n) => StoredAddrs(n) \subseteq DictKeys(node[n].addr_to_name)

\* the prior metadata of the write m names an address that the vector
\* clock of its coordinator has no entry for (the test of
\* update_my_vector_clock)
NamesUnknown(m) ==
    /\ m.type = "put for coordinator"
    /\ m.metadata # <<>>
    /\ ~(DictKeys(m.metadata[1]) \subseteq DictKeys(node[m.dst].vector_clock))

\* the step sends nothing to the replicas and leaves every store, and the
\* pending tables of node n, as they were
NothingWritten(n) ==
    /\ \A w \in BagToSet(net') :
          w.type = "put global" => CopiesIn(w, net') <= CopiesIn(w, net)
    /\ \A o \in Nodes : node'[o].storage = node[o].storage
    /\ node'[n].waiting_put = node[n].waiting_put
    /\ node'[n].waiting_put_addr = node[n].waiting_put_addr

\* the step tells the sender of m, or the client of the node that handles
\* m, of an error
Surfaced(m) ==
    \/ \E e \in BagToSet(net') :
          /\ e.type = "ERROR" /\ e.dst = m.sender
          /\ CopiesIn(e, net') > CopiesIn(e, net)
    \/ /\ Len(client'[m.dst]) > Len(client[m.dst])
       /\ client'[m.dst][Len(client'[m.dst])].type = "ERROR"

\* C20 (SpecMetadata): an unknown address in prior metadata is rejected
\* cleanly.  When a PUT reaches the coordinator with prior metadata naming
\* an address the coordinator does not know, the error is surfaced to the
\* requester, no value is stamped, fanned out or stored, and the
\* coordinator's vector clock and pending tables are as before the message.
C20_UnknownRejectedCleanly ==
    [][\A m \in InFlight :
          (NamesUnknown(m) /\ Delivered(m)) =>
              /\ Surfaced(m)
              /\ NothingWritten(m.dst)
              /\ node'[m.dst].vector_clock = node[m.dst].vector_clock]_vars

\* the part of it without the report to the requester
C20_NothingWritten ==
    [][\A m \in InFlight :
          (NamesUnknown(m) /\ Delivered(m)) =>
              /\ NothingWritten(m.dst)
              /\ node'[m.dst].vector_clock = node[m.dst].vector_clock
              /\ "AssertionError" \in raised'[m.dst]]_vars

\* a is before b when each missing entry counts as 0
BeforeZeroFilled(a, b) ==
    /\ \A addr \in DictKeys(a) \cup DictKeys(b) : At(a, addr) <= At(b, addr)
    /\ \E addr \in DictKeys(a) \cup DictKeys(b) : At(a, addr) < At(b, addr)

EqualZeroFilled(a, b) ==
    \A addr \in DictKeys(a) \cup DictKeys(b) : At(a, addr) = At(b, addr)

\* C21 (SpecClocks): comparison of clocks with different address sets is
\* defined.  For two clocks whose key sets differ, cmp_vector_clocks does
\* not fail, and returns the ordering of the clocks with each missing entry
\* taken as 0: 0 when they are then equal, -1 when the first is before the
\* second.
C21_MixedComparisonDefined ==
    (calc.mixed # <<>> /\ DictKeys(calc.mixed[1].a) # DictKeys(calc.mixed[1].b)) =>
        LET c == calc.mixed[1]
        IN  /\ ~c.raised
            /\ c.result[1] = 0 <=> EqualZeroFilled(c.a, c.b)
            /\ c.result[1] = -1 <=> BeforeZeroFilled(c.a, c.b)

\* the part of it about failing: key sets of different sizes are the case
\* in which the comparison fails, and it fails in every such case
C21_FailsOnLengthMismatch ==
    calc.mixed # <<>> =>
        (calc.mixed[1].raised <=>
            Cardinality(DictKeys(calc.mixed[1].a)) # Cardinality(DictKeys(calc.mixed[1].b)))

\* this step is node n handling a GET, a PUT, or (the step of a query that
\* answers n's client) a LOOKUP
HandlesGet(n) ==
    Len(hist'.gets) > Len(hist.gets) /\ hist'.gets[Len(hist'.gets)].entry = n

HandlesPut(n) ==
    Len(hist'.puts) > Len(hist.puts) /\ hist'.puts[Len(hist'.puts)].entry = n

HandlesLookup(n) ==
    hist'.queries > hist.queries /\ client'[n] # client[n]

\* this step answers n's client with one ERROR and does nothing else
AnsweredWithError(n) ==
    /\ Len(client'[n]) = Len(client[n]) + 1
    /\ client'[n][Len(client'[n])].type = "ERROR"
    /\ raised'[n] = raised[n]
    /\ node'[n] = node[n]
    /\ net' = net

\* C22 (SpecEmptyRing): the empty ring is guarded.  A GET, PUT or LOOKUP
\* handled by a node that has no ring points is answered with an explicit
\* error to the client; the handler neither faults nor admits a request
\* that can never complete.
C22_EmptyRingGuarded ==
    [][\A n \in Nodes :
          (node[n].points = <<>> /\ (HandlesGet(n) \/ HandlesPut(n) \/ HandlesLookup(n)))
              => AnsweredWithError(n)]_vars

\* what the three handlers do on a node without points: GET sends nothing
\* and records a pending read, PUT faults on the index, LOOKUP answers with
\* an empty list
C22_EmptyRingOutcomes ==
    [][\A n \in Nodes :
          node[n].points = <<>> =>
              /\ HandlesGet(n) =>
                    /\ net' = net /\ client' = client /\ raised' = raised
                    /\ DOMAIN node'[n].waiting_get_keys # {}
              /\ HandlesPut(n) =>
                    /\ net' = net /\ client' = client /\ node' = node
                    /\ "IndexError" \in raised'[n]
              /\ HandlesLookup(n) =>
                    /\ net' = net /\ node' = node /\ raised' = raised
                    /\ client'[n] = Append(client[n], LocalMessage("LOOKUP_RESP"))]_vars

\* the notification node n sends to node dst once it has its seed's reply
Notification(n, dst) ==
    [Message("I joined", n, dst) EXCEPT !.name = NodeName[n], !.points = node'[n].points]

\* C23 (SpecSettled): join notification fan-out.  The node that handles
\* the seed's reply 'addrs' sends 'I joined', with its name and points,
\* exactly once to each address of the received directory other than the
\* seed and itself, and to no one else; a node that handles 'I joined'
\* merges the points, records the name and sends no message at all.
C23_NotificationFanOut ==
    [][\A m \in InFlight :
          /\ (m.type = "addrs" /\ Delivered(m)) =>
                net' = (net (-) SetToBag({m}))
                       (+) SetToBag({Notification(m.dst, dst) :
                                       dst \in DictKeys(m.names) \ {m.sender, m.dst}})
          /\ (m.type = "I joined" /\ Delivered(m)) =>
                /\ net' = net (-) SetToBag({m})
                /\ client' = client
                /\ Range(m.points) \subseteq Range(node'[m.dst].points)
                /\ DictHas(node'[m.dst].addr_to_name, m.sender)
                /\ DictGet(node'[m.dst].addr_to_name, m.sender) = m.name]_vars

\* the fourth node has its seed's reply, and its notifications to the two
\* members other than the seed are in flight, one copy of each
C23_Witness ==
    \E n \in Joined :
        /\ Cardinality(DictKeys(node[n].addr_to_name)) = 4
        /\ LET sent == {m \in InFlight : m.type = "I joined" /\ m.sender = n}
           IN  /\ Cardinality({m.dst : m \in sent}) = 2
               /\ \A m \in sent : CopiesIn(m, net) = 1 /\ m.dst \in Joined \ {n}
               /\ Cardinality(sent) = 2

\* C24 (SpecJoin): ring point set invariant.  In every reachable state each
\* node's point list is sorted ascending by position and holds no two
\* identical (position, owner) pairs, after any sequence of JOIN commands
\* and join messages, a repeated JOIN on one node and merges of
\* overlapping point sets included.
C24_PointsSortedDistinct ==
    \A n \in Nodes :
        \A i, j \in DOMAIN node[n].points :
            i < j => /\ node[n].points[i][1] <= node[n].points[j][1]
                     /\ node[n].points[i] # node[n].points[j]

\* a node that handled JOIN twice holds its two points and the point of its
\* seed, which has merged the same three
C24_Witness ==
    \E n \in Joined : \E o \in Joined \ {n} :
        /\ Cardinality({i \in DOMAIN node[n].points : node[n].points[i][2] = n}) = 2
        /\ Len(node[n].points) = 3
        /\ node[o].points = node[n].points
        /\ net = EmptyBag

\* this step of the sharding program is node n handling the command type
\* for key, resp. handling the message m
ShardHandles(n, type, key) ==
    /\ Len(shard'.cmds) > Len(shard.cmds)
    /\ shard'.cmds[Len(shard'.cmds)] = [type |-> type, node |-> n, key |-> key]

ShardDelivered(m) ==
    m \in BagToSet(shard.net) /\ CopiesIn(m, shard'.net) < CopiesIn(m, shard.net)

\* this step gives n's client the response resp, and no exception escapes
ShardAnswers(n, resp) ==
    /\ shard'.client[n] = Append(shard.client[n], resp)
    /\ shard'.raised = shard.raised

\* this step sends a message of the type to node dst, and no exception
\* escapes
ShardReplies(type, dst) ==
    /\ \E w \in BagToSet(shard'.net) :
          /\ w.type = type /\ w.dst = dst
          /\ CopiesIn(w, shard'.net) > CopiesIn(w, shard.net)
    /\ shard'.raised = shard.raised

\* the GET half: a GET for a key its owner does not store
ShardGetNotFound ==
    /\ \A n \in ShardNodes, key \in ShardKeys :
          (/\ ShardHandles(n, "GET", key)
           /\ whose_node(key, shard.node[n].points) = n
           /\ key \notin DOMAIN shard.node[n].storage)
              => ShardAnswers(n, ShardLocal("GET_RESP", ""))
    /\ \A m \in BagToSet(shard.net) :
          /\ (/\ ShardDelivered(m) /\ m.type = "get global"
              /\ m.body \notin DOMAIN shard.node[m.dst].storage)
                 => ShardReplies("get global NOT FOUND", m.sender)
          /\ (ShardDelivered(m) /\ m.type = "get global NOT FOUND")
                 => ShardAnswers(m.dst, ShardLocal("GET_RESP", ""))

\* the DELETE half: a DELETE for a key its owner does not store
ShardDeleteNotFound ==
    /\ \A n \in ShardNodes, key \in ShardKeys :
          (/\ ShardHandles(n, "DELETE", key)
           /\ whose_node(key, shard.node[n].points) = n
           /\ key \notin DOMAIN shard.node[n].storage)
              => ShardAnswers(n, ShardLocal("DELETE_RESP", <<>>))
    /\ \A m \in BagToSet(shard.net) :
          (/\ ShardDelivered(m) /\ m.type = "delete global"
           /\ m.body \notin DOMAIN shard.node[m.dst].storage)
              => ShardReplies("delete global resp", m.sender)

\* C25 (SpecSharding): missing keys in the sharding node never raise.  A
\* GET or a DELETE for a key that is not stored, whether the key's owner is
\* the local node or a remote one, is answered to the client with the
\* not-found response (GET_RESP with the empty string, DELETE_RESP), and no
\* handler raises or fails an assertion.
C25_MissingKeysAnswered ==
    [][ShardGetNotFound /\ ShardDeleteNotFound]_vars

\* the GET half on its own
C25_GetNotFound ==
    [][ShardGetNotFound]_vars

\* C26 (SpecErrors): error replies do not echo.  An ERROR message received
\* from another node never causes a further message to be sent: the step
\* that handles it takes it out of the network and adds nothing, so the
\* exchange started by one unrecognized message stops.
C26_ErrorsDoNotEcho ==
    [][\A m \in InFlight :
          (m.type = "ERROR" /\ Delivered(m)) => net' = net (-) SetToBag({m})]_vars

\* an ERROR is answered by an ERROR that names it as unknown
C26_ErrorAnsweredByError ==
    [][\A m \in InFlight :
          (m.type = "ERROR" /\ Delivered(m)) =>
              net' = (net (-) SetToBag({m}))
                     (+) SetToBag({[Message("ERROR", m.dst, m.sender) EXCEPT
                                       !.text = "unknown message: ERROR"]})]_vars

\* this step is the server taking the message msg
RpcDelivered(msg) ==
    msg \in BagToSet(rpc.net) /\ CopiesIn(msg, rpc'.net) < CopiesIn(msg, rpc.net)

\* C27 (SpecRpc): at-most-once execution in the RPC server.  A REQUEST
\* whose identifier has already been processed is answered with the stored
\* response for that identifier, the service operation is not invoked
\* again, the store is unchanged, and exactly one response is sent for that
\* request message.
C27_AtMostOnce ==
    [][\A msg \in BagToSet(rpc.net) :
          (/\ RpcDelivered(msg) /\ msg.type = "REQUEST"
           /\ msg.headers \in DOMAIN rpc.id_to_msg_response) =>
              /\ rpc'.sent = Append(rpc.sent,
                                    [to |-> msg.sender, id |-> msg.headers,
                                     msg |-> rpc.id_to_msg_response[msg.headers]])
              /\ rpc'.calls = rpc.calls
              /\ rpc'.data = rpc.data
              /\ rpc'.id_to_msg_response = rpc.id_to_msg_response]_vars

\* what the server does with a repeated identifier: it sends the stored
\* response and then the response of a second execution
C27_ExecutedAgain ==
    [][\A msg \in BagToSet(rpc.net) :
          (/\ RpcDelivered(msg) /\ msg.type = "REQUEST"
           /\ msg.headers \in DOMAIN rpc.id_to_msg_response) =>
              /\ Len(rpc'.sent) = Len(rpc.sent) + 2
              /\ rpc'.sent[Len(rpc.sent) + 1].msg = rpc.id_to_msg_response[msg.headers]
              /\ rpc'.calls = rpc.calls + 1]_vars

\* this step of the membership program is node n handling LEAVE
MembLeaves(n) ==
    /\ Len(memb'.log) > Len(memb.log)
    /\ memb'.log[Len(memb'.log)] = [type |-> "LEAVE", node |-> n]

\* the 'leave' message of node n to the member dst
LeaveNotice(n, dst) == MembMessage("leave", memb.node[n], n, dst, <<>>)

\* C28 (SpecMembership): leave notification.  When a node that knows the
\* members M handles LEAVE, it sends a 'leave' message to every address of
\* M other than itself; afterwards its own member list is empty and its
\* gossip timer is cancelled.
C28_LeaveNotifies ==
    [][\A n \in MembNodes :
          MembLeaves(n) =>
              /\ memb'.net = memb.net (+) SetToBag({LeaveNotice(n, dst) :
                                  dst \in DictKeys(memb.node[n].mem_list) \ {n}})
              /\ memb'.node[n].mem_list = <<>>
              /\ memb'.node[n].addr_to_name = <<>>
              /\ ~memb'.timer[n]]_vars

\* what LEAVE does: the leaver forgets the members and cancels its timer,
\* and sends nothing
C28_LeaveSendsNothing ==
    [][\A n \in MembNodes :
          MembLeaves(n) =>
              /\ memb'.net = memb.net
              /\ memb'.node[n].mem_list = <<>>
              /\ memb'.node[n].addr_to_name = <<>>
              /\ ~memb'.timer[n]]_vars

\* the messages peer p delivered before the i-th
DeliveredBefore(p, i) == {bcast.delivered[p][j] : j \in 1 .. i - 1}

\* no peer delivers a message twice
AtMostOnce ==
    \A p \in Range(BcastPeers) : \A i, j \in DOMAIN bcast.delivered[p] :
        bcast.delivered[p][i] = bcast.delivered[p][j] => i = j

\* a peer delivers the messages of one sender by msg_id, from 0, without gaps
SenderOrder ==
    \A p \in Range(BcastPeers) : \A i \in DOMAIN bcast.delivered[p] :
        LET headers == json_loads(bcast.delivered[p][i].headers)
        IN  headers.msg_id =
                Cardinality({m \in DeliveredBefore(p, i) :
                                json_loads(m.headers).from = headers.from})

\* a peer delivers a message after all that its sender had delivered when
\* it sent the message
CausalOrder ==
    \A p \in Range(BcastPeers) : \A i \in DOMAIN bcast.delivered[p] :
        bcast.before[bcast.delivered[p][i]] \subseteq DeliveredBefore(p, i)

\* C29 (SpecBroadcast): causal delivery.  Every peer delivers each
\* broadcast message at most once, delivers the messages of one sender in
\* the order they were sent (by msg_id, without gaps), and delivers a
\* message only after every message its sender had delivered when it sent
\* the message, for every interleaving of receipts and relays.
C29_CausalDelivery == AtMostOnce /\ SenderOrder /\ CausalOrder

\* a peer stored the first message of another peer while a message its
\* sender had delivered was missing, and has delivered it since
C29_Witness ==
    \E p \in Range(BcastPeers) : \E i \in DOMAIN bcast.delivered[p] :
        LET m == bcast.delivered[p][i]
        IN  /\ <<p, m>> \in bcast.held
            /\ json_loads(m.headers).from # p
            /\ json_loads(m.headers).msg_id = 0
            /\ \E m0 \in bcast.before[m] : json_loads(m0.headers).from # json_loads(m.headers).from

=============================================================================
